---- MODULE Spec2Model ----
(***************************************************************************)
(* State-machine model of the SSM automation scripts: the security         *)
(* helpers (shared/python/security_helpers.py), the document check         *)
(* (scripts/ssm_policy_check.py), the HTML report and the waiter helper    *)
(* (shared/python/aws_helpers.py) and the configuration manager            *)
(* (shared/python/config_manager.py).  Every helper is one action: its     *)
(* inputs (arguments and the provider's answers) are drawn from small      *)
(* sets, and its return value is left in `result`.                         *)
(* Spec runs the evaluators and the remediation, whose provider answers    *)
(* are inputs; SpecS3 runs the S3 helpers against the buckets' state;      *)
(* SpecCore runs every security helper together; SpecPolicyCheck runs      *)
(* check_file and main over the module's errors list; SpecReport runs      *)
(* format_results_as_html; SpecWait runs wait_for_resource_state;          *)
(* SpecConfig runs one ConfigManager against the stores it reads and       *)
(* writes.                                                                 *)
(***************************************************************************)
EXTENDS Integers, Sequences, FiniteSets, TLC

VARIABLES
    op,         \* name of the helper that ran last ("idle" between calls)
    args,       \* its arguments and the provider answers it was given
    result,     \* what it returned
    calls,      \* the provider calls it issued, in order
    bucketEnc,  \* provider state: bucket -> encryption configuration
    lastWrite,  \* history: bucket -> who wrote bucketEnc[bucket] last
    applied,    \* history: bucket -> the last successful application of
                \* enable_s3_bucket_encryption to it and, while the helper
                \* that repeated it has not returned, the one it repeats
                \* (same key id, no other write to the bucket in between)
    before,     \* history: bucketEnc as it was when the helper that ran last
                \* was called
    errors,     \* ssm_policy_check: the module's list of recorded errors
    manager,    \* the ConfigManager: config_source, region, clients
    configStore, \* provider state: the parameters and objects configuration
                \* is kept in, each with the text stored
    created,    \* history: the boto3.client calls made for the manager
    lastPut     \* history: location -> the value the manager put there, while
                \* that put is the last write to the location

vars ==
    <<op, args, result, calls, bucketEnc, lastWrite, applied, before, errors,
      manager, configStore, created, lastPut>>

\* the configuration manager's side of the state
configState == <<manager, configStore, created, lastPut>>

\* the S3 side of the state, left alone by every other helper
s3State == <<bucketEnc, lastWrite, applied, before>>

(***************************************************************************)
(* Bounds of the model.                                                    *)
(***************************************************************************)
MaxRules == 2      \* ingress rules in a security group
MaxIssues == 2     \* findings handed to the remediation
MaxTrails == 2     \* trails the account has
MaxErrors == 2     \* recorded errors beyond which no further check is started
MaxRows == 2       \* items in a list section of a report

(***************************************************************************)
(* Python values.  None, ints and bools are tagged so that truthiness and  *)
(* comparisons are computed as Python computes them (bool is an int).      *)
(***************************************************************************)
PyNone == [t |-> "none", v |-> 0]
PyInt(n) == [t |-> "int", v |-> n]
PyBool(b) == [t |-> "bool", v |-> IF b THEN 1 ELSE 0]
Truthy(x) == x.t # "none" /\ x.v # 0

\* dict.get(key, default) on a record standing for a dict
Get(d, key, default) == IF key \in DOMAIN d THEN d[key] ELSE default

Min(a, b) == IF a < b THEN a ELSE b
Max(a, b) == IF a > b THEN a ELSE b

\* 2^n for n in 0..16
Pow2(n) ==
    <<1, 2, 4, 8, 16, 32, 64, 128, 256, 512, 1024, 2048, 4096, 8192, 16384,
      32768, 65536>>[n + 1]

\* botocore ClientError; str(e) is its text cut into the pieces
\* "An error occurred (<code>) when calling the operation: <message>"
ClientError(code, message) ==
    [exception |-> "ClientError",
     str |-> <<"An error occurred (", code, ") when calling the operation: ", message>>]

\* `piece in str(e)` for a piece that is an error code or a message
StrContains(str, piece) == \E i \in DOMAIN str : str[i] = piece

(***************************************************************************)
(* CIDR strings.  A CIDR string is modelled by what it spells:             *)
(*   kind "none"  - None            kind "empty" - ""                      *)
(*   kind "text"  - text that is no address at all                         *)
(*   kind "v4"    - a.b.c.d/p with the four octets in a                    *)
(*   kind "v6"    - g::/p, the first 16-bit group in a (the rest zero)     *)
(***************************************************************************)
CidrNone == [kind |-> "none", a |-> <<>>, p |-> 0]
CidrEmpty == [kind |-> "empty", a |-> <<>>, p |-> 0]
CidrText == [kind |-> "text", a |-> <<>>, p |-> 0]
V4(o1, o2, o3, o4, p) == [kind |-> "v4", a |-> <<o1, o2, o3, o4>>, p |-> p]
V6(g, p) == [kind |-> "v6", a |-> <<g>>, p |-> p]

AnyV4 == V4(0, 0, 0, 0, 0)     \* "0.0.0.0/0"
AnyV6 == V6(0, 0)              \* "::/0"

\* An address as 16-bit words: two for IPv4, the leading one for IPv6.
Words(c) ==
    IF c.kind = "v4"
    THEN <<c.a[1] * 256 + c.a[2], c.a[3] * 256 + c.a[4]>>
    ELSE c.a

\* number of prefix bits that fall into word i
WordPrefix(p, i) == Min(16, Max(0, p - 16 * (i - 1)))
HostSpan(p, i) == Pow2(16 - WordPrefix(p, i))

MaxPrefix(c) == IF c.kind = "v4" THEN 32 ELSE 128

\* ipaddress.ip_network(cidr) raises ValueError (strict mode): not an
\* address, an octet above 255, a prefix too long, or host bits set.
\* The IPv6 strings of the model have prefixes of at most 16 bits.
NetworkValueError(c) ==
    \/ c.kind \notin {"v4", "v6"}
    \/ \E i \in DOMAIN c.a : c.a[i] > (IF c.kind = "v4" THEN 255 ELSE 65535)
    \/ c.p > MaxPrefix(c)
    \/ c.kind = "v6" /\ c.p > 16
    \/ \E i \in DOMAIN Words(c) : Words(c)[i] % HostSpan(c.p, i) # 0

ip_network(c) ==
    IF NetworkValueError(c)
    THEN [raised |-> "ValueError"]
    ELSE [raised |-> "none", kind |-> c.kind, w |-> Words(c), p |-> c.p]

network_address(n) == n.w
broadcast_address(n) == [i \in DOMAIN n.w |-> n.w[i] + HostSpan(n.p, i) - 1]

\* address in network (block given as words and prefix length)
InBlock(addr, w, p) ==
    \A i \in DOMAIN addr : addr[i] \div HostSpan(p, i) = w[i] \div HostSpan(p, i)

\* ipaddress._private_networks (IPv4), as <<words, prefix>>
PrivateV4 == {
    <<<<0, 0>>, 8>>,             \* 0.0.0.0/8
    <<<<2560, 0>>, 8>>,          \* 10.0.0.0/8
    <<<<32512, 0>>, 8>>,         \* 127.0.0.0/8
    <<<<43518, 0>>, 16>>,        \* 169.254.0.0/16
    <<<<44048, 0>>, 12>>,        \* 172.16.0.0/12
    <<<<49152, 0>>, 29>>,        \* 192.0.0.0/29
    <<<<49152, 170>>, 31>>,      \* 192.0.0.170/31
    <<<<49152, 512>>, 24>>,      \* 192.0.2.0/24
    <<<<49320, 0>>, 16>>,        \* 192.168.0.0/16
    <<<<50706, 0>>, 15>>,        \* 198.18.0.0/15
    <<<<50739, 25600>>, 24>>,    \* 198.51.100.0/24
    <<<<52224, 28928>>, 24>>,    \* 203.0.113.0/24
    <<<<61440, 0>>, 4>>,         \* 240.0.0.0/4
    <<<<65535, 65535>>, 32>>     \* 255.255.255.255/32
}
\* ipaddress._private_networks (IPv6) that can hold a block of <= 16 bits
PrivateV6 == {
    <<<<64512>>, 7>>,            \* fc00::/7
    <<<<65152>>, 10>>            \* fe80::/10
}
ReservedV4 == { <<<<61440, 0>>, 4>> }   \* 240.0.0.0/4
\* ipaddress._reserved_networks (IPv6)
ReservedV6 == {
    <<<<0>>, 8>>, <<<<256>>, 8>>, <<<<512>>, 7>>, <<<<1024>>, 6>>,
    <<<<2048>>, 5>>, <<<<4096>>, 4>>, <<<<16384>>, 3>>, <<<<24576>>, 3>>,
    <<<<32768>>, 3>>, <<<<40960>>, 3>>, <<<<49152>>, 3>>, <<<<57344>>, 4>>,
    <<<<61440>>, 5>>, <<<<63488>>, 6>>, <<<<65024>>, 9>>
}

\* network.is_private: one private block holds both ends of the network
is_private(n) ==
    \E b \in (IF n.kind = "v4" THEN PrivateV4 ELSE PrivateV6) :
        /\ InBlock(network_address(n), b[1], b[2])
        /\ InBlock(broadcast_address(n), b[1], b[2])

\* address.is_reserved
AddrReserved(kind, addr) ==
    \E b \in (IF kind = "v4" THEN ReservedV4 ELSE ReservedV6) :
        InBlock(addr, b[1], b[2])

\* network.is_reserved: both ends of the network are reserved addresses
is_reserved(n) ==
    /\ AddrReserved(n.kind, network_address(n))
    /\ AddrReserved(n.kind, broadcast_address(n))

\* `not cidr`
CidrFalsy(c) == c.kind \in {"none", "empty"}

\* is_public_cidr without its `except ValueError`
is_public_cidr_call_unguarded(cidr) ==
    IF CidrFalsy(cidr) THEN [raised |-> "none", ret |-> FALSE]
    ELSE IF cidr = AnyV4 \/ cidr = AnyV6 THEN [raised |-> "none", ret |-> TRUE]
    ELSE LET network == ip_network(cidr) IN
         IF network.raised = "ValueError"
         THEN [raised |-> "ValueError", ret |-> FALSE]
         ELSE [raised |-> "none", ret |-> ~is_private(network) /\ ~is_reserved(network)]

\* The body of is_public_cidr; what it returns, or the exception it lets out.
is_public_cidr_call(cidr) ==
    IF CidrFalsy(cidr) THEN [raised |-> "none", ret |-> FALSE]
    ELSE IF cidr = AnyV4 \/ cidr = AnyV6 THEN [raised |-> "none", ret |-> TRUE]
    ELSE LET network == ip_network(cidr) IN
         IF network.raised = "ValueError"
         THEN [raised |-> "none", ret |-> FALSE]          \* except ValueError: pass
         ELSE IF ~is_private(network) /\ ~is_reserved(network)
              THEN [raised |-> "none", ret |-> TRUE]
              ELSE [raised |-> "none", ret |-> FALSE]

is_public_cidr(cidr) == is_public_cidr_call(cidr).ret

\* CIDR strings the classifier is called with
CidrSamples ==
    {CidrNone, CidrEmpty, CidrText}
    \cup {V4(o1, o2, o3, o4, p) :
            o1 \in {0, 8, 10, 172, 192, 240, 256}, o2 \in {0, 16, 168},
            o3 \in {0}, o4 \in {0, 1}, p \in {0, 8, 12, 16, 24, 32, 33}}
    \cup {V6(g, p) : g \in {0, 8192, 16384, 64512, 65152}, p \in {0, 3, 7, 10, 16, 129}}

(***************************************************************************)
(* check_security_group_rules                                              *)
(***************************************************************************)
DefaultHighRiskPorts == <<22, 3389, 5432, 3306, 1433, 27017, 6379, 9200, 8080, 8443>>

\* Python list argument: None, or a list of ports
NoPorts == [none |-> TRUE, ports |-> <<>>]
Ports(s) == [none |-> FALSE, ports |-> s]

\* `if not high_risk_ports: high_risk_ports = [22, ...]`
EffectivePorts(high_risk_ports) ==
    IF high_risk_ports.none \/ high_risk_ports.ports = <<>>
    THEN DefaultHighRiskPorts
    ELSE high_risk_ports.ports

\* str.upper() on the protocol names of the model
Upper(s) ==
    CASE s = "tcp" -> "TCP"
      [] s = "udp" -> "UDP"
      [] s = "icmp" -> "ICMP"
      [] OTHER -> s

\* the ports of high_risk_ports inside [from_port, to_port], in list order
PortsInRange(high_risk_ports, from_port, to_port) ==
    SelectSeq(high_risk_ports, LAMBDA port : from_port <= port /\ port <= to_port)

\* the finding built for one public (rule, CIDR) pair
Issue(rule, cidr, high_risk_ports) ==
    LET from_port == Get(rule, "FromPort", 0)
        to_port == Get(rule, "ToPort", 65535)
        ip_protocol == Get(rule, "IpProtocol", "-1")
        affected_ports ==
            IF ip_protocol = "-1"
            THEN high_risk_ports
            ELSE PortsInRange(high_risk_ports, from_port, to_port)
        is_high_risk == ip_protocol = "-1" \/ affected_ports # <<>>
        protocol_str == IF ip_protocol # "-1" THEN Upper(ip_protocol) ELSE "ALL"
        port_str == IF from_port = to_port THEN <<from_port>> ELSE <<from_port, to_port>>
    IN  [Type |-> "PublicAccess",
         Severity |-> IF is_high_risk THEN "HIGH" ELSE "MEDIUM",
         FromPort |-> from_port,
         ToPort |-> to_port,
         IpProtocol |-> ip_protocol,
         Cidr |-> cidr,
         AffectedPorts |-> affected_ports,
         Description |-> [cidr |-> cidr, protocol |-> protocol_str, ports |-> port_str]]

\* inner loop: `for ip_range in rule.get("IpRanges", [])`
RECURSIVE RuleIssues(_, _, _)
RuleIssues(rule, ranges, high_risk_ports) ==
    IF ranges = <<>> THEN <<>>
    ELSE LET cidr == Get(Head(ranges), "CidrIp", CidrEmpty)
             rest == RuleIssues(rule, Tail(ranges), high_risk_ports)
         IN  IF is_public_cidr(cidr)
             THEN <<Issue(rule, cidr, high_risk_ports)>> \o rest
             ELSE rest

\* outer loop: `for rule in sg.get("IpPermissions", [])`
RECURSIVE GroupIssues(_, _)
GroupIssues(rules, high_risk_ports) ==
    IF rules = <<>> THEN <<>>
    ELSE RuleIssues(Head(rules), Get(Head(rules), "IpRanges", <<>>), high_risk_ports)
         \o GroupIssues(Tail(rules), high_risk_ports)

\* HighRiskIssues counting every finding
HighCount_all(issues) == Len(issues)

\* len([i for i in issues if i.get("Severity") == "HIGH"])
HighCount(issues) == Len(SelectSeq(issues, LAMBDA i : i.Severity = "HIGH"))

DescribeSecurityGroupsCall(security_group_id) ==
    [api |-> "describe_security_groups", GroupIds |-> <<security_group_id>>]

\* answer: what ec2.describe_security_groups gave: an exception or a response
check_security_group_rules(security_group_id, high_risk_ports_arg, answer) ==
    LET high_risk_ports == EffectivePorts(high_risk_ports_arg) IN
    IF ~answer.ok                                  \* except ClientError as e
    THEN [SecurityGroupId |-> security_group_id, Status |-> "Error",
          Error |-> answer.error.str]
    ELSE LET response == answer.value IN
         IF "SecurityGroups" \notin DOMAIN response \/ response.SecurityGroups = <<>>
         THEN [SecurityGroupId |-> security_group_id, Status |-> "Error",
               Error |-> "Security group not found"]
         ELSE LET sg == response.SecurityGroups[1]
                  issues == GroupIssues(Get(sg, "IpPermissions", <<>>), high_risk_ports)
              IN  [SecurityGroupId |-> security_group_id,
                   SecurityGroupName |-> Get(sg, "GroupName", "Unknown"),
                   VpcId |-> Get(sg, "VpcId", "default"),
                   Status |-> IF issues # <<>> THEN "HasIssues" ELSE "Clean",
                   Issues |-> issues,
                   TotalIssues |-> Len(issues),
                   HighRiskIssues |-> HighCount(issues)]

\* provider answers
Raised(e) == [ok |-> FALSE, error |-> e]
Returned(v) == [ok |-> TRUE, value |-> v]

\* sequences over S of length at most n
SeqUpTo(S, n) == UNION {[1..k -> S] : k \in 0..n}

PrivateCidr == V4(10, 0, 0, 0, 8)        \* "10.0.0.0/8"

\* ingress rules as describe_security_groups reports them
PortSamples ==
    {[IpProtocol |-> "tcp", FromPort |-> 22, ToPort |-> 22],
     [IpProtocol |-> "tcp", FromPort |-> 80, ToPort |-> 90],
     [IpProtocol |-> "-1"]}
IpRangeSamples ==
    {<<>>, <<[CidrIp |-> AnyV4]>>, <<[CidrIp |-> PrivateCidr]>>,
     <<[CidrIp |-> PrivateCidr], [CidrIp |-> AnyV4]>>}
Ipv6RangeSamples == {<<>>, <<[CidrIpv6 |-> AnyV6]>>}
RuleSamples ==
    {ports @@ [IpRanges |-> r4, Ipv6Ranges |-> r6] :
        ports \in PortSamples, r4 \in IpRangeSamples, r6 \in Ipv6RangeSamples}

HighRiskPortSamples == {NoPorts, Ports(<<>>), Ports(<<80, 22>>)}

\* the answers that hold a group, its rules one of the given lists
GroupAnswers(ruleLists) ==
    {Returned([SecurityGroups |->
                 <<[GroupName |-> "web", VpcId |-> "vpc-1", IpPermissions |-> rules]>>]) :
        rules \in ruleLists}

\* the answers that hold no group
NoGroupAnswers ==
    {Raised(ClientError("InvalidGroup.NotFound", "The security group does not exist")),
     Raised(ClientError("UnauthorizedOperation", "You are not authorized"))}
    \cup {Returned([SecurityGroups |-> <<>>]), Returned([ResponseMetadata |-> "200"])}

DescribeSecurityGroupsAnswers ==
    NoGroupAnswers \cup GroupAnswers(SeqUpTo(RuleSamples, MaxRules))

ShortSecurityGroupsAnswers ==
    NoGroupAnswers \cup GroupAnswers({<<>>} \cup {<<rule>> : rule \in RuleSamples})

(***************************************************************************)
(* remediate_security_group_issues                                         *)
(***************************************************************************)
\* the revoke_security_group_ingress call built from a finding
RevokeCall(security_group_id, issue) ==
    [api |-> "revoke_security_group_ingress",
     GroupId |-> security_group_id,
     IpPermissions |-> <<[IpProtocol |-> Get(issue, "IpProtocol", "-1"),
                          FromPort |-> Get(issue, "FromPort", 0),
                          ToPort |-> Get(issue, "ToPort", 65535),
                          IpRanges |-> <<[CidrIp |-> Get(issue, "Cidr", CidrEmpty)]>>]>>]

\* One pass of `for issue in issues` from index i on.  acc holds the two
\* lists and the calls issued so far; outcomes[i] is the provider's answer
\* to the call made for issues[i], if one is made.
\* Here the try/except encloses the whole loop: the first ClientError ends it.
RECURSIVE RemediateLoop_abort(_, _, _, _, _)
RemediateLoop_abort(security_group_id, issues, outcomes, i, acc) ==
    IF i > Len(issues) THEN acc
    ELSE LET issue == issues[i] IN
         IF Get(issue, "Type", "None") # "PublicAccess"
         THEN RemediateLoop_abort(security_group_id, issues, outcomes, i + 1, acc)
         ELSE IF CidrFalsy(Get(issue, "Cidr", CidrEmpty))
         THEN RemediateLoop_abort(security_group_id, issues, outcomes, i + 1,
                  [acc EXCEPT !.failed = Append(@, [Issue |-> issue,
                                                    Error |-> "Missing CIDR information"])])
         ELSE LET called == [acc EXCEPT !.calls =
                                 Append(@, RevokeCall(security_group_id, issue))] IN
              IF outcomes[i].ok
              THEN RemediateLoop_abort(security_group_id, issues, outcomes, i + 1,
                       [called EXCEPT !.remediated = Append(@, issue)])
              ELSE [called EXCEPT !.failed = Append(@, [Issue |-> issue,
                                                        Error |-> outcomes[i].error.str])]

RECURSIVE RemediateLoop(_, _, _, _, _)
RemediateLoop(security_group_id, issues, outcomes, i, acc) ==
    IF i > Len(issues) THEN acc
    ELSE LET issue == issues[i] IN
         IF Get(issue, "Type", "None") # "PublicAccess"
         THEN RemediateLoop(security_group_id, issues, outcomes, i + 1, acc)
         ELSE IF CidrFalsy(Get(issue, "Cidr", CidrEmpty))
         THEN RemediateLoop(security_group_id, issues, outcomes, i + 1,    \* continue
                  [acc EXCEPT !.failed = Append(@, [Issue |-> issue,
                                                    Error |-> "Missing CIDR information"])])
         ELSE LET called == [acc EXCEPT !.calls =
                                 Append(@, RevokeCall(security_group_id, issue))] IN
              IF outcomes[i].ok
              THEN RemediateLoop(security_group_id, issues, outcomes, i + 1,
                       [called EXCEPT !.remediated = Append(@, issue)])
              ELSE RemediateLoop(security_group_id, issues, outcomes, i + 1,  \* except ClientError
                       [called EXCEPT !.failed = Append(@, [Issue |-> issue,
                                                            Error |-> outcomes[i].error.str])])

\* Status that ignores the failures once something was remediated
RemediationStatus_anySuccess(remediated_issues, failed_remediations) ==
    IF remediated_issues # <<>> THEN "Remediated" ELSE "Failed"

RemediationStatus(remediated_issues, failed_remediations) ==
    IF remediated_issues # <<>> /\ failed_remediations = <<>> THEN "Remediated"
    ELSE IF remediated_issues # <<>> THEN "PartiallyRemediated"
    ELSE "Failed"

\* returns the result and the provider calls issued
remediate_security_group_issues(security_group_id, issues, outcomes) ==
    IF issues = <<>>
    THEN [ret |-> [SecurityGroupId |-> security_group_id, Status |-> "NoIssues",
                   Message |-> "No issues to remediate"],
          calls |-> <<>>]
    ELSE LET end == RemediateLoop(security_group_id, issues, outcomes, 1,
                                  [remediated |-> <<>>, failed |-> <<>>, calls |-> <<>>])
         IN  [ret |-> [SecurityGroupId |-> security_group_id,
                       Status |-> RemediationStatus(end.remediated, end.failed),
                       RemediatedIssues |-> Len(end.remediated),
                       FailedRemediations |-> Len(end.failed),
                       Details |-> [Remediated |-> end.remediated, Failed |-> end.failed]],
              calls |-> end.calls]

\* findings handed to the remediation: two that the evaluator produces, one
\* with an empty CIDR, one without the Cidr key, one of another kind
SshFinding ==
    Issue([IpProtocol |-> "tcp", FromPort |-> 22, ToPort |-> 22], AnyV4, DefaultHighRiskPorts)
AllTrafficFinding == Issue([IpProtocol |-> "-1"], AnyV6, DefaultHighRiskPorts)
EmptyCidrFinding == [SshFinding EXCEPT !.Cidr = CidrEmpty]
NoCidrFinding == [Type |-> "PublicAccess", Severity |-> "MEDIUM", IpProtocol |-> "udp",
                  FromPort |-> 53, ToPort |-> 53]
OtherFinding == [Type |-> "Unencrypted", Severity |-> "HIGH", Cidr |-> AnyV4]
IssueSamples ==
    {SshFinding, AllTrafficFinding, EmptyCidrFinding, NoCidrFinding, OtherFinding}

RevokeAnswers ==
    {Returned([Return |-> TRUE]),
     Raised(ClientError("InvalidPermission.NotFound", "The specified rule does not exist")),
     Raised(ClientError("UnauthorizedOperation", "You are not authorized"))}

(***************************************************************************)
(* check_iam_password_policy                                               *)
(***************************************************************************)
PolicyKeys ==
    {"MinimumPasswordLength", "RequireSymbols", "RequireNumbers",
     "RequireUppercaseCharacters", "RequireLowercaseCharacters",
     "PasswordReusePrevention", "MaxPasswordAge"}

RequirementFlags ==
    {"RequireSymbols", "RequireNumbers", "RequireUppercaseCharacters",
     "RequireLowercaseCharacters"}

\* best_practices; True is the int 1
best_practices ==
    [k \in PolicyKeys |->
        CASE k = "MinimumPasswordLength" -> PyInt(14)
          [] k = "PasswordReusePrevention" -> PyInt(24)
          [] k = "MaxPasswordAge" -> PyInt(90)
          [] OTHER -> PyBool(TRUE)]

\* MaxPasswordAge compared without the truthiness guard on the value
FieldCompliant_plain(key, current_value, recommended_value) ==
    IF key \in RequirementFlags THEN Truthy(current_value)
    ELSE IF key = "MaxPasswordAge"
    THEN current_value.t # "none" /\ current_value.v <= recommended_value.v
    ELSE Truthy(current_value) /\ current_value.v >= recommended_value.v

\* the condition of each branch of the if/elif chain over key
FieldCompliant(key, current_value, recommended_value) ==
    IF key = "MinimumPasswordLength"
    THEN Truthy(current_value) /\ current_value.v >= recommended_value.v
    ELSE IF key \in RequirementFlags
    THEN Truthy(current_value)
    ELSE IF key = "PasswordReusePrevention"
    THEN Truthy(current_value) /\ current_value.v >= recommended_value.v
    ELSE Truthy(current_value) /\ current_value.v <= recommended_value.v

\* compliance[key]; a key the policy lacks reads as None (policy.get(key))
Compliance(policy) ==
    [key \in PolicyKeys |->
        [Status |-> IF FieldCompliant(key, Get(policy, key, PyNone), best_practices[key])
                    THEN "Compliant" ELSE "NonCompliant",
         CurrentValue |-> Get(policy, key, PyNone),
         RecommendedValue |-> best_practices[key]]]

\* a number kept exact: num / den
Ratio(num, den) == [num |-> num, den |-> den]

\* (compliant_count / total_checks) * 100 if total_checks > 0 else 0
CompliancePercentage(compliant_count, total_checks) ==
    IF total_checks > 0 THEN Ratio(compliant_count * 100, total_checks) ELSE Ratio(0, 1)

\* Status that calls any compliant field Compliant
OverallStatus_anyCompliant(compliance_percentage) ==
    IF compliance_percentage.num > 0 THEN "Compliant" ELSE "NonCompliant"

OverallStatus(compliance_percentage) ==
    IF compliance_percentage.num = 100 * compliance_percentage.den THEN "Compliant"
    ELSE IF compliance_percentage.num > 0 THEN "PartiallyCompliant"
    ELSE "NonCompliant"

\* the except branch taking every ClientError for a missing policy
PolicyError_allMissing(e) ==
    [Status |-> "NonCompliant", CompliancePercentage |-> Ratio(0, 1),
     Error |-> "No password policy is set",
     ComplianceDetails |-> <<>>, CurrentPolicy |-> <<>>]

\* except ClientError as e
PolicyError(e) ==
    IF StrContains(e.str, "NoSuchEntity")
    THEN [Status |-> "NonCompliant", CompliancePercentage |-> Ratio(0, 1),
          Error |-> "No password policy is set",
          ComplianceDetails |-> <<>>, CurrentPolicy |-> <<>>]
    ELSE [Status |-> "Error", Error |-> e.str]

GetAccountPasswordPolicyCall == [api |-> "get_account_password_policy"]

\* answer: what iam.get_account_password_policy gave
check_iam_password_policy(answer) ==
    IF ~answer.ok THEN PolicyError(answer.error)
    ELSE LET policy == Get(answer.value, "PasswordPolicy", <<>>)
             compliance == Compliance(policy)
             compliant_count ==
                 Cardinality({k \in DOMAIN compliance : compliance[k].Status = "Compliant"})
             total_checks == Cardinality(DOMAIN compliance)
             compliance_percentage == CompliancePercentage(compliant_count, total_checks)
         IN  [Status |-> OverallStatus(compliance_percentage),
              CompliancePercentage |-> compliance_percentage,
              ComplianceDetails |-> compliance,
              CurrentPolicy |-> policy]

\* password policies; a field the account has not set is None
PolicySamples ==
    [MinimumPasswordLength : {PyNone, PyInt(8), PyInt(14)},
     RequireSymbols : {PyNone, PyBool(TRUE), PyBool(FALSE)},
     RequireNumbers : {PyBool(TRUE), PyBool(FALSE)},
     RequireUppercaseCharacters : {PyBool(TRUE), PyBool(FALSE)},
     RequireLowercaseCharacters : {PyBool(TRUE), PyBool(FALSE)},
     PasswordReusePrevention : {PyNone, PyInt(0), PyInt(24)},
     MaxPasswordAge : {PyNone, PyInt(0), PyInt(90), PyInt(365)}]

GetAccountPasswordPolicyAnswers ==
    {Raised(ClientError("NoSuchEntity", "The Password Policy cannot be found")),
     Raised(ClientError("AccessDenied", "You are not authorized")),
     Raised(ClientError("Throttling", "Rate exceeded"))}
    \cup {Returned([ResponseMetadata |-> "200"])}
    \cup {Returned([PasswordPolicy |-> policy]) : policy \in PolicySamples}

(***************************************************************************)
(* check_s3_bucket_encryption, enable_s3_bucket_encryption                 *)
(***************************************************************************)
\* Python strings that may be None
StrNone == [t |-> "none", s |-> ""]
Str(x) == [t |-> "str", s |-> x]
StrTruthy(x) == x.t = "str" /\ x.s # ""

\* has_sse / has_kms over the rules of the configuration
HasSSE(rules) ==
    \E i \in DOMAIN rules :
        Get(Get(rules[i], "ApplyServerSideEncryptionByDefault", <<>>), "SSEAlgorithm", "") # ""
\* has_kms set by any algorithm of the KMS family
HasKMS_family(rules) ==
    \E i \in DOMAIN rules :
        Get(Get(rules[i], "ApplyServerSideEncryptionByDefault", <<>>), "SSEAlgorithm", "")
            \in {"aws:kms", "aws:kms:dsse"}

HasKMS(rules) ==
    \E i \in DOMAIN rules :
        Get(Get(rules[i], "ApplyServerSideEncryptionByDefault", <<>>), "SSEAlgorithm", "")
            = "aws:kms"

\* a lookup that removes the configuration it reads
GetBucketEncryptionCall_delete(bucket_name) ==
    [api |-> "delete_bucket_encryption", Bucket |-> bucket_name]

GetBucketEncryptionCall(bucket_name) == [api |-> "get_bucket_encryption", Bucket |-> bucket_name]

\* answer: what s3.get_bucket_encryption gave
check_s3_bucket_encryption(bucket_name, answer) ==
    IF ~answer.ok
    THEN IF StrContains(answer.error.str, "ServerSideEncryptionConfigurationNotFoundError")
         THEN [BucketName |-> bucket_name, Status |-> "Unencrypted",
               Message |-> "No encryption configuration found"]
         ELSE [BucketName |-> bucket_name, Status |-> "Error", Error |-> answer.error.str]
    ELSE LET rules == Get(Get(answer.value, "ServerSideEncryptionConfiguration", <<>>),
                          "Rules", <<>>)
         IN  IF rules = <<>>
             THEN [BucketName |-> bucket_name, Status |-> "Unencrypted",
                   Message |-> "No encryption rules found"]
             ELSE [BucketName |-> bucket_name, Status |-> "Encrypted",
                   HasSSE |-> HasSSE(rules), HasKMS |-> HasKMS(rules),
                   EncryptionRules |-> rules]

\* a configuration that names the key but keeps the default algorithm
EncryptionConfig_alwaysAES(kms_key_id) ==
    IF StrTruthy(kms_key_id)
    THEN [Rules |-> <<[ApplyServerSideEncryptionByDefault |->
                          [SSEAlgorithm |-> "AES256", KMSMasterKeyID |-> kms_key_id.s]]>>]
    ELSE [Rules |-> <<[ApplyServerSideEncryptionByDefault |-> [SSEAlgorithm |-> "AES256"]]>>]

\* encryption_config
EncryptionConfig(kms_key_id) ==
    IF StrTruthy(kms_key_id)
    THEN [Rules |-> <<[ApplyServerSideEncryptionByDefault |->
                          [SSEAlgorithm |-> "aws:kms", KMSMasterKeyID |-> kms_key_id.s]]>>]
    ELSE [Rules |-> <<[ApplyServerSideEncryptionByDefault |-> [SSEAlgorithm |-> "AES256"]]>>]

PutBucketEncryptionCall(bucket_name, kms_key_id) ==
    [api |-> "put_bucket_encryption", Bucket |-> bucket_name,
     ServerSideEncryptionConfiguration |-> EncryptionConfig(kms_key_id)]

\* a failure reported without what the provider said
enable_s3_bucket_encryption_silent(bucket_name, kms_key_id, answer) ==
    IF answer.ok
    THEN [BucketName |-> bucket_name, Status |-> "Enabled",
          EncryptionType |-> IF StrTruthy(kms_key_id) THEN "KMS" ELSE "AES256",
          KmsKeyId |-> kms_key_id]
    ELSE [BucketName |-> bucket_name, Status |-> "Error", Error |-> <<"Error">>]

\* answer: what s3.put_bucket_encryption gave
enable_s3_bucket_encryption(bucket_name, kms_key_id, answer) ==
    IF answer.ok
    THEN [BucketName |-> bucket_name, Status |-> "Enabled",
          EncryptionType |-> IF StrTruthy(kms_key_id) THEN "KMS" ELSE "AES256",
          KmsKeyId |-> kms_key_id]
    ELSE [BucketName |-> bucket_name, Status |-> "Error", Error |-> answer.error.str]

(***************************************************************************)
(* The provider's side of S3: each bucket has an encryption configuration  *)
(* or none.  get_bucket_encryption reads it, put_bucket_encryption         *)
(* replaces it; either call may fail for a reason of the provider's.       *)
(***************************************************************************)
NoConfiguration == [present |-> FALSE, config |-> [Rules |-> <<>>]]
Configured(config) == [present |-> TRUE, config |-> config]

NeverWritten == [by |-> "none", kms_key_id |-> StrNone]
WrittenByEnable(kms_key_id) == [by |-> "enable", kms_key_id |-> kms_key_id]
WrittenByOther == [by |-> "other", kms_key_id |-> StrNone]

\* one successful application of enable_s3_bucket_encryption: what it
\* returned and the configuration it left on the bucket
Application(bucket_name, kms_key_id, returned, config) ==
    [bucket_name |-> bucket_name, kms_key_id |-> kms_key_id,
     result |-> returned, config |-> config]

\* the history after one more application: it follows the previous one when
\* it repeats it, and starts afresh otherwise
Repeated(history, application) ==
    IF /\ history # <<>>
       /\ history[Len(history)].bucket_name = application.bucket_name
       /\ history[Len(history)].kms_key_id = application.kms_key_id
    THEN <<history[Len(history)], application>>
    ELSE <<application>>

\* the history once the comparison is over: the last application alone
LastOnly(history) ==
    IF history = <<>> THEN <<>> ELSE <<history[Len(history)]>>

AccessDenied == ClientError("AccessDenied", "Access Denied")

GetBucketEncryption(bucket, fault) ==
    IF fault THEN Raised(AccessDenied)
    ELSE IF ~bucketEnc[bucket].present
    THEN Raised(ClientError("ServerSideEncryptionConfigurationNotFoundError",
                            "The server side encryption configuration was not found"))
    ELSE Returned([ServerSideEncryptionConfiguration |-> bucketEnc[bucket].config])

KeyIdSamples == {StrNone, Str(""), Str("key-1")}

\* configurations another writer may leave on a bucket
OtherConfigs ==
    {[Rules |-> <<>>],
     [Rules |-> <<[BucketKeyEnabled |-> TRUE]>>],
     [Rules |-> <<[ApplyServerSideEncryptionByDefault |-> [SSEAlgorithm |-> "aws:kms:dsse"]]>>],
     [Rules |-> <<[BucketKeyEnabled |-> TRUE],
                  [ApplyServerSideEncryptionByDefault |->
                      [SSEAlgorithm |-> "aws:kms", KMSMasterKeyID |-> "key-2"]]>>]}

(***************************************************************************)
(* check_cloudtrail_status                                                 *)
(***************************************************************************)
DescribeTrailsCall == [api |-> "describe_trails"]
GetTrailStatusCall(trail_name) == [api |-> "get_trail_status", Name |-> trail_name]

\* is_logging: what the status lookup told, False when it failed
IsLogging(status_answer) ==
    IF status_answer.ok THEN Get(status_answer.value, "IsLogging", FALSE) ELSE FALSE

\* a trail that logs counts as healthy whatever its settings
TrailStatus_loggingOnly(is_logging, is_multi_region, log_file_validation) ==
    IF is_logging THEN "Healthy" ELSE "Suboptimal"

\* the Status of one trail
TrailStatus(is_logging, is_multi_region, log_file_validation) ==
    IF is_logging /\ is_multi_region /\ log_file_validation
    THEN "Healthy" ELSE "Suboptimal"

\* the record appended to trail_details for one trail
TrailDetail(trail, status_answer) ==
    [TrailName |-> Get(trail, "Name", "Unknown"),
     IsMultiRegion |-> Get(trail, "IsMultiRegionTrail", FALSE),
     IsLogging |-> IsLogging(status_answer),
     LogFileValidation |-> Get(trail, "LogFileValidationEnabled", FALSE),
     IsOrganizationTrail |-> Get(trail, "IsOrganizationTrail", FALSE),
     KmsEncryption |-> "KmsKeyId" \in DOMAIN trail,
     Status |-> TrailStatus(IsLogging(status_answer),
                            Get(trail, "IsMultiRegionTrail", FALSE),
                            Get(trail, "LogFileValidationEnabled", FALSE))]

\* trail_details after the loop; statuses[i] is what get_trail_status gave
\* for the i-th trail
TrailDetails(trails, statuses) ==
    [i \in 1..Len(trails) |-> TrailDetail(trails[i], statuses[i])]

IsHealthy(detail) == detail.Status = "Healthy"
IsMultiRegionDetail(detail) == detail.IsMultiRegion

\* a failed status lookup taken as a failure of the whole check
check_cloudtrail_status_strict(answer, statuses) ==
    IF ~answer.ok
    THEN [Status |-> "Error", Error |-> answer.error.str]
    ELSE LET trails == Get(answer.value, "trailList", <<>>)
             details == TrailDetails(trails, statuses)
         IN  IF trails = <<>>
             THEN [Status |-> "NotConfigured", Message |-> "No CloudTrail trails found"]
             ELSE IF \E i \in 1..Len(trails) : ~statuses[i].ok
             THEN [Status |-> "Error",
                   Error |-> statuses[CHOOSE i \in 1..Len(trails) : ~statuses[i].ok].error.str]
             ELSE [Status |-> IF SelectSeq(details, IsHealthy) # <<>> THEN "Healthy"
                              ELSE "Suboptimal",
                   TrailCount |-> Len(trails),
                   HealthyTrailCount |-> Len(SelectSeq(details, IsHealthy)),
                   MultiRegionTrailCount |-> Len(SelectSeq(details, IsMultiRegionDetail)),
                   Trails |-> details]

\* answer: what cloudtrail.describe_trails gave
check_cloudtrail_status(answer, statuses) ==
    IF ~answer.ok
    THEN [Status |-> "Error", Error |-> answer.error.str]
    ELSE LET trails == Get(answer.value, "trailList", <<>>)
             details == TrailDetails(trails, statuses)
         IN  IF trails = <<>>
             THEN [Status |-> "NotConfigured", Message |-> "No CloudTrail trails found"]
             ELSE [Status |-> IF SelectSeq(details, IsHealthy) # <<>> THEN "Healthy"
                              ELSE IF trails # <<>> THEN "Suboptimal"
                              ELSE "NotConfigured",
                   TrailCount |-> Len(trails),
                   HealthyTrailCount |-> Len(SelectSeq(details, IsHealthy)),
                   MultiRegionTrailCount |-> Len(SelectSeq(details, IsMultiRegionDetail)),
                   Trails |-> details]

\* the provider calls of one check: the listing, then one status lookup for
\* each trail listed
CloudTrailCalls(answer) ==
    IF ~answer.ok THEN <<DescribeTrailsCall>>
    ELSE LET trails == Get(answer.value, "trailList", <<>>) IN
         <<DescribeTrailsCall>> \o
             [i \in 1..Len(trails) |-> GetTrailStatusCall(Get(trails[i], "Name", "Unknown"))]

TrailSamples ==
    {[Name |-> "t1", IsMultiRegionTrail |-> TRUE, LogFileValidationEnabled |-> TRUE,
      KmsKeyId |-> "key-1", IsOrganizationTrail |-> TRUE],
     [Name |-> "t2", IsMultiRegionTrail |-> TRUE, LogFileValidationEnabled |-> TRUE],
     [Name |-> "t1", IsMultiRegionTrail |-> FALSE, LogFileValidationEnabled |-> TRUE],
     [Name |-> "t2", IsMultiRegionTrail |-> TRUE, LogFileValidationEnabled |-> FALSE],
     [Name |-> "t2", IsMultiRegionTrail |-> TRUE],
     [IsMultiRegionTrail |-> TRUE, LogFileValidationEnabled |-> TRUE]}

TrailStatusAnswers ==
    {Returned([IsLogging |-> TRUE]),
     Returned([IsLogging |-> FALSE]),
     Returned([LatestDeliveryAttemptSucceeded |-> ""]),
     Raised(ClientError("TrailNotFoundException", "Unknown trail"))}

\* the answers that hold no trail list
NoTrailListAnswers ==
    {Raised(ClientError("AccessDeniedException", "You are not authorized")),
     Returned([ResponseMetadata |-> "200"])}

DescribeTrailsAnswers ==
    NoTrailListAnswers
    \cup {Returned([trailList |-> trails]) : trails \in SeqUpTo(TrailSamples, MaxTrails)}

ShortTrailsAnswers ==
    NoTrailListAnswers
    \cup {Returned([trailList |-> trails]) :
             trails \in {<<>>} \cup {<<trail>> : trail \in TrailSamples}}

(***************************************************************************)
(* check_ebs_volume_encryption                                             *)
(***************************************************************************)
DescribeVolumesCall(volume_id) == [api |-> "describe_volumes", VolumeIds |-> <<volume_id>>]

\* the lookup's exception let through to the caller
check_ebs_volume_encryption_uncaught(volume_id, answer) ==
    IF ~answer.ok
    THEN [raised |-> answer.error]
    ELSE IF answer.value = <<>> \/ "Volumes" \notin DOMAIN answer.value
            \/ answer.value.Volumes = <<>>
    THEN [VolumeId |-> volume_id, Status |-> "Error", Error |-> "Volume not found"]
    ELSE LET volume == answer.value.Volumes[1] IN
         [VolumeId |-> volume_id,
          Status |-> IF Get(volume, "Encrypted", FALSE) THEN "Encrypted" ELSE "Unencrypted",
          Encrypted |-> Get(volume, "Encrypted", FALSE),
          KmsKeyId |-> Get(volume, "KmsKeyId", StrNone),
          Size |-> Get(volume, "Size", 0),
          State |-> Get(volume, "State", "unknown")]

\* answer: what ec2.describe_volumes gave
check_ebs_volume_encryption(volume_id, answer) ==
    IF ~answer.ok
    THEN [VolumeId |-> volume_id, Status |-> "Error", Error |-> answer.error.str]
    ELSE IF answer.value = <<>> \/ "Volumes" \notin DOMAIN answer.value
            \/ answer.value.Volumes = <<>>
    THEN [VolumeId |-> volume_id, Status |-> "Error", Error |-> "Volume not found"]
    ELSE LET volume == answer.value.Volumes[1] IN
         [VolumeId |-> volume_id,
          Status |-> IF Get(volume, "Encrypted", FALSE) THEN "Encrypted" ELSE "Unencrypted",
          Encrypted |-> Get(volume, "Encrypted", FALSE),
          KmsKeyId |-> Get(volume, "KmsKeyId", StrNone),
          Size |-> Get(volume, "Size", 0),
          State |-> Get(volume, "State", "unknown")]

VolumeSamples ==
    {[VolumeId |-> "vol-1", Encrypted |-> TRUE, KmsKeyId |-> Str("key-1"),
      Size |-> 8, State |-> "in-use"],
     [VolumeId |-> "vol-1", Encrypted |-> FALSE, Size |-> 8, State |-> "available"],
     [VolumeId |-> "vol-1"]}

DescribeVolumesAnswers ==
    {Raised(ClientError("InvalidVolume.NotFound", "The volume does not exist")),
     Raised(ClientError("UnauthorizedOperation", "You are not authorized")),
     Returned(<<>>),
     Returned([ResponseMetadata |-> "200"]),
     Returned([Volumes |-> <<>>])}
    \cup {Returned([Volumes |-> <<volume>>]) : volume \in VolumeSamples}

(***************************************************************************)
(* check_root_account_mfa                                                  *)
(***************************************************************************)
GetAccountSummaryCall == [api |-> "get_account_summary"]

\* answer: what iam.get_account_summary gave
check_root_account_mfa(answer) ==
    IF ~answer.ok
    THEN [Status |-> "Error", Error |-> answer.error.str]
    ELSE LET account_mfa_enabled ==
                 Get(Get(answer.value, "SummaryMap", <<>>), "AccountMFAEnabled", 0) # 0
         IN  [Status |-> IF account_mfa_enabled THEN "Enabled" ELSE "Disabled",
              MFAEnabled |-> account_mfa_enabled]

GetAccountSummaryAnswers ==
    {Raised(ClientError("AccessDenied", "You are not authorized")),
     Raised(ClientError("ServiceFailure", "Internal error")),
     Returned([ResponseMetadata |-> "200"]),
     Returned([SummaryMap |-> [Users |-> 3]]),
     Returned([SummaryMap |-> [Users |-> 3, AccountMFAEnabled |-> 0]]),
     Returned([SummaryMap |-> [Users |-> 3, AccountMFAEnabled |-> 1]])}

(***************************************************************************)
(* scripts/ssm_policy_check.py: check_file, main                           *)
(***************************************************************************)
\* values yaml.load puts in a document; text is a sequence of characters
YamlNull == [t |-> "null", text |-> <<>>]
YamlStr(chars) == [t |-> "str", text |-> chars]
YamlFloat(repr) == [t |-> "float", text |-> repr]

\* str(value)
PyStr(value) == IF value.t = "null" THEN <<"N", "o", "n", "e">> ELSE value.text

\* `not value` for the values above (no float sampled is 0.0)
Falsy(value) == value.t = "null" \/ (value.t = "str" /\ value.text = <<>>)

Whitespace == {" ", "\t", "\n"}

RECURSIVE LStrip(_)
LStrip(chars) ==
    IF chars # <<>> /\ Head(chars) \in Whitespace THEN LStrip(Tail(chars)) ELSE chars

RECURSIVE RStrip(_)
RStrip(chars) ==
    IF chars # <<>> /\ chars[Len(chars)] \in Whitespace
    THEN RStrip(SubSeq(chars, 1, Len(chars) - 1))
    ELSE chars

\* str.strip()
Strip(chars) == RStrip(LStrip(chars))

\* documents: a mapping (a record of its top-level keys) or something else
Mapping(entries) == [kind |-> "mapping", entries |-> entries]
NotMapping(kind) == [kind |-> kind, entries |-> <<>>]

\* what opening and loading the file gives
Loaded(doc) == [ok |-> TRUE, doc |-> doc]
LoadFailed(message) == [ok |-> FALSE, message |-> message]

YamlLoadError(path, message) == [path |-> path, error |-> "YAML load error", detail |-> message]
SchemaVersionError(path, sv) ==
    [path |-> path, error |-> "schemaVersion must be '0.3'", detail |-> sv]
AssumeRoleError(path) ==
    [path |-> path, error |-> "'assumeRole' is required at top level", detail |-> <<>>]

\* the comparison made on the value as loaded, without str() and strip()
SchemaVersionText_raw(doc) ==
    IF "schemaVersion" \in DOMAIN doc.entries /\ doc.entries.schemaVersion.t = "str"
    THEN doc.entries.schemaVersion.text
    ELSE <<>>

\* sv
SchemaVersionText(doc) == Strip(PyStr(Get(doc.entries, "schemaVersion", YamlStr(<<>>))))

\* the entries check_file appends to errors for one file
check_file(path, loaded) ==
    IF ~loaded.ok THEN <<YamlLoadError(path, loaded.message)>>
    ELSE IF loaded.doc.kind # "mapping" THEN <<>>
    ELSE IF {"schemaVersion", "assumeRole", "mainSteps"} \cap DOMAIN loaded.doc.entries = {}
    THEN <<>>
    ELSE (IF SchemaVersionText(loaded.doc) # <<"0", ".", "3">>
          THEN <<SchemaVersionError(path, SchemaVersionText(loaded.doc))>> ELSE <<>>)
         \o (IF Falsy(Get(loaded.doc.entries, "assumeRole", YamlNull))
             THEN <<AssumeRoleError(path)>> ELSE <<>>)

\* Path(a): its parts and the suffix of its last part
Path(parts, suffix) == [parts |-> parts, suffix |-> suffix]

\* the files main hands to check_file
Checked(p) == p.suffix \in {".yaml", ".yml"} /\ Len(p.parts) = 1

\* what the loop of main appends to errors; targets are files, each a path
\* with what loading it gives
RECURSIVE CheckTargets(_)
CheckTargets(targets) ==
    IF targets = <<>> THEN <<>>
    ELSE (IF Checked(Head(targets).path)
          THEN check_file(Head(targets).path, Head(targets).loaded) ELSE <<>>)
         \o CheckTargets(Tail(targets))

\* main's return value and what it prints, given errors after the loop
MainResult(recorded) ==
    IF recorded # <<>> THEN [returned |-> 1, printed |-> recorded]
    ELSE [returned |-> 0, printed |-> <<>>]

Role == YamlStr(<<"r", "o", "l", "e">>)
V03 == YamlStr(<<"0", ".", "3">>)

DocSamples ==
    {NotMapping("sequence"),
     NotMapping("null"),
     Mapping([description |-> YamlStr(<<"d">>)]),
     Mapping([schemaVersion |-> V03, assumeRole |-> Role, mainSteps |-> YamlStr(<<"s">>)]),
     Mapping([schemaVersion |-> YamlFloat(<<"0", ".", "3">>), assumeRole |-> Role]),
     Mapping([schemaVersion |-> YamlStr(<<" ", "0", ".", "3", " ">>), assumeRole |-> Role]),
     Mapping([schemaVersion |-> YamlStr(<<"2", ".", "2">>), assumeRole |-> Role]),
     Mapping([schemaVersion |-> YamlNull, assumeRole |-> Role]),
     Mapping([assumeRole |-> Role]),
     Mapping([schemaVersion |-> V03, assumeRole |-> YamlStr(<<>>)]),
     Mapping([schemaVersion |-> V03, assumeRole |-> YamlNull]),
     Mapping([schemaVersion |-> V03]),
     Mapping([mainSteps |-> YamlStr(<<"s">>)])}

TopLevelYaml == Path(<<"a.yaml">>, ".yaml")

FileSamples ==
    {[path |-> TopLevelYaml, loaded |-> Loaded(doc)] : doc \in DocSamples}
    \cup {[path |-> TopLevelYaml, loaded |-> LoadFailed("mapping values are not allowed here")],
          [path |-> Path(<<"b.yml">>, ".yml"),
           loaded |-> Loaded(Mapping([mainSteps |-> YamlStr(<<"s">>)]))],
          [path |-> Path(<<"docs", "c.yaml">>, ".yaml"),
           loaded |-> Loaded(Mapping([mainSteps |-> YamlStr(<<"s">>)]))],
          [path |-> Path(<<"notes.txt">>, ".txt"),
           loaded |-> Loaded(Mapping([mainSteps |-> YamlStr(<<"s">>)]))]}

\* the files a sampled two-file invocation pairs a first file with
SecondFiles ==
    {f \in FileSamples :
        \/ f.path # TopLevelYaml
        \/ f.loaded = Loaded(Mapping([schemaVersion |-> V03, assumeRole |-> Role,
                                      mainSteps |-> YamlStr(<<"s">>)]))}

\* argv[1:] of the sampled invocations: no file, one file, two files
TargetSamples ==
    {<<>>}
    \cup {<<f>> : f \in FileSamples}
    \cup {<<f, g>> : f \in FileSamples, g \in SecondFiles}

(***************************************************************************)
(* shared/python/aws_helpers.py: format_results_as_html.  A Python string  *)
(* is a sequence of atoms: a word of plain text, or a piece of markup (a   *)
(* tag, a character reference); what is formatted into the page is        *)
(* concatenated as it is.  Whitespace between elements is left out.        *)
(***************************************************************************)
\* str.lower() on the words of the model
Lower(word) ==
    CASE word = "Status" -> "status"
      [] word = "STATE" -> "state"
      [] word = "State" -> "state"
      [] word = "ResourceId" -> "resourceid"
      [] word = "Statement" -> "statement"
      [] word = "Error" -> "error"
      [] word = "HasIssues" -> "hasissues"
      [] word = "Healthy" -> "healthy"
      [] word = "FAILED" -> "failed"
      [] word = "Unknown" -> "unknown"
      [] word = "OK" -> "ok"
      [] word = "In Progress" -> "in progress"
      [] OTHER -> word

LowerText(text) == [i \in DOMAIN text |-> Lower(text[i])]

SuccessWords == {"success", "succeeded", "passed", "ok", "healthy", "active", "clean"}
ErrorWords == {"error", "failed", "fail", "failure", "unhealthy"}
WarningWords == {"warning", "pending", "progress", "in progress", "hasissues"}

\* css_class with the key compared as it is written
CssClass_keyAsWritten(key, value) ==
    IF key \in {"status", "state"}
    THEN IF LowerText(value) \in {<<w>> : w \in SuccessWords} THEN "success"
         ELSE IF LowerText(value) \in {<<w>> : w \in ErrorWords} THEN "error"
         ELSE IF LowerText(value) \in {<<w>> : w \in WarningWords} THEN "warning"
         ELSE ""
    ELSE ""

\* css_class
CssClass(key, value) ==
    IF Lower(key) \in {"status", "state"}
    THEN IF LowerText(value) \in {<<w>> : w \in SuccessWords} THEN "success"
         ELSE IF LowerText(value) \in {<<w>> : w \in ErrorWords} THEN "error"
         ELSE IF LowerText(value) \in {<<w>> : w \in WarningWords} THEN "warning"
         ELSE ""
    ELSE ""

\* <td class="...">
TdOpen(css_class) ==
    CASE css_class = "success" -> "<td class=\"success\">"
      [] css_class = "error" -> "<td class=\"error\">"
      [] css_class = "warning" -> "<td class=\"warning\">"
      [] OTHER -> "<td>"

RECURSIVE Concat(_)
Concat(pieces) == IF pieces = <<>> THEN <<>> ELSE Head(pieces) \o Concat(Tail(pieces))

\* Python values of a results dict: a dict keeps its pairs in insertion order
Dict(pairs) == [kind |-> "dict", pairs |-> pairs, items |-> <<>>, text |-> <<>>]
List(items) == [kind |-> "list", pairs |-> <<>>, items |-> items, text |-> <<>>]
Text(text) == [kind |-> "str", pairs |-> <<>>, items |-> <<>>, text |-> text]
Pair(key, value) == [key |-> key, value |-> value]

\* one cell of a row
RenderCell(pair) ==
    <<TdOpen(CssClass(pair.key, pair.value))>> \o pair.value \o <<"</td>">>

\* the header row, from the keys of the first item
RenderHeader(item) ==
    <<"<tr>">>
    \o Concat([i \in DOMAIN item.pairs |-> <<"<th>", item.pairs[i].key, "</th>">>])
    \o <<"</tr>">>

RenderRow(item) ==
    <<"<tr>">> \o Concat([i \in DOMAIN item.pairs |-> RenderCell(item.pairs[i])]) \o <<"</tr>">>

\* the body of a section
RenderData(data) ==
    IF data.kind = "list" /\ data.items # <<>>
    THEN IF data.items[1].kind = "dict"
         THEN <<"<table>">> \o RenderHeader(data.items[1])
              \o Concat([i \in DOMAIN data.items |-> RenderRow(data.items[i])])
              \o <<"</table>">>
         ELSE <<>>
    ELSE IF data.kind = "dict"
    THEN <<"<table>">>
         \o Concat([i \in DOMAIN data.pairs |->
                       <<"<tr>", "<th>", data.pairs[i].key, "</th>", "<td>">>
                       \o data.pairs[i].value \o <<"</td>", "</tr>">>])
         \o <<"</table>">>
    ELSE <<"<p>">> \o (IF data.kind = "list" THEN <<"[]">> ELSE data.text) \o <<"</p>">>

RenderSection(section) ==
    IF section.name = "summary" THEN <<>>
    ELSE <<"<h2>", section.name, "</h2>">> \o RenderData(section.data)

\* results['summary'], when there is one
SummaryOf(results) ==
    SelectSeq(results, LAMBDA section : section.name = "summary")

RenderSummary(results) ==
    IF SummaryOf(results) = <<>> THEN <<>>
    ELSE LET pairs == SummaryOf(results)[1].data.pairs IN
         Concat([i \in DOMAIN pairs |->
                    <<"<p>", "<strong>", pairs[i].key, ":", "</strong>">>
                    \o pairs[i].value \o <<"</p>">>])

\* .items() called on something that is not a dict
RaisesAttributeError(results) ==
    \/ SummaryOf(results) # <<>> /\ SummaryOf(results)[1].data.kind # "dict"
    \/ \E s \in DOMAIN results :
           /\ results[s].name # "summary"
           /\ results[s].data.kind = "list"
           /\ results[s].data.items # <<>>
           /\ results[s].data.items[1].kind = "dict"
           /\ \E i \in DOMAIN results[s].data.items : results[s].data.items[i].kind # "dict"

\* results: the sections in the dict's order; now: the formatted clock
format_results_as_html(title, results, now) ==
    IF RaisesAttributeError(results)
    THEN [ok |-> FALSE, exception |-> "AttributeError"]
    ELSE [ok |-> TRUE,
          html |-> <<"<!DOCTYPE html>", "<html>", "<head>", "<title>", title, "</title>",
                     "<style>", "</style>", "</head>", "<body>", "<h1>", title, "</h1>",
                     "<div class=\"summary\">", "<p>", "<strong>", "Date:", "</strong>",
                     now, "</p>">>
                   \o RenderSummary(results)
                   \o <<"</div>">>
                   \o Concat([s \in DOMAIN results |-> RenderSection(results[s])])
                   \o <<"</body>", "</html>">>]

ItemSamples ==
    {Dict(<<Pair("ResourceId", <<"sg-1">>), Pair("Status", <<"HasIssues">>)>>),
     Dict(<<Pair("ResourceId", <<"b-1">>), Pair("Status", <<"Healthy">>)>>),
     Dict(<<Pair("Status", <<"Error">>), Pair("ResourceId", <<"vol-1">>)>>),
     Dict(<<Pair("ResourceId", <<"sg-2">>), Pair("Error", <<"FAILED">>),
            Pair("Status", <<"Unknown">>)>>),
     Dict(<<Pair("ResourceId", <<"web", "<b>", "1">>), Pair("STATE", <<"In Progress">>),
            Pair("Status", <<"FAILED">>)>>),
     Dict(<<Pair("ResourceId", <<"R", "&amp;", "D">>), Pair("Statement", <<"OK">>),
            Pair("Status", <<"OK">>)>>),
     Text(<<"n/a">>)}

Section(name, data) == [name |-> name, data |-> data]

\* the results dicts formatted: a list section alone, or after a summary
\* (a dict, or by mistake a list) and before a dict section
ResultsSamples ==
    {<<Section("Findings", List(items))>> : items \in SeqUpTo(ItemSamples, MaxRows)}
    \cup {<<Section("summary", Dict(<<Pair("Status", <<"OK">>)>>)),
            Section("Findings", List(items)),
            Section("Account", Dict(<<Pair("State", <<"active">>)>>)),
            Section("Note", Text(<<"done">>))>> : items \in SeqUpTo(ItemSamples, MaxRows)}
    \cup {<<Section("summary", List(items))>> : items \in SeqUpTo(ItemSamples, MaxRows)}

ClockSamples == {"2024-01-01 00:00:00", "2024-12-31 23:59:59"}

(***************************************************************************)
(* shared/python/aws_helpers.py: wait_for_resource_state.  A waiter name   *)
(* is the sequence of the words and underscores it is spelled from, and    *)
(* `'instance' in waiter_name` is the search for that word in it.          *)
(***************************************************************************)
\* botocore WaiterError: the waiter saw a failure state or ran out of
\* attempts; it is not a ClientError
WaiterError ==
    [exception |-> "WaiterError", str |-> <<"Waiter failed: ", "Max attempts exceeded">>]

\* waiter_config
WaiterConfig(delay, max_attempts) == [Delay |-> delay, MaxAttempts |-> max_attempts]

\* waiter.wait(<parameter>=<value>, WaiterConfig=waiter_config); the value
\* is the resource id, or the list holding it
WaitCall(waiter_name, parameter, in_list, resource_id, waiter_config) ==
    [api |-> "wait", waiter |-> waiter_name, parameter |-> parameter,
     value |-> [list |-> in_list, id |-> resource_id], WaiterConfig |-> waiter_config]

\* the waits the helper issues: the branch taken by service and waiter name
WaitCalls(service_name, waiter_name, resource_id, resource_type, max_attempts, delay) ==
    LET waiter_config == WaiterConfig(delay, max_attempts) IN
    IF service_name = "ec2"
    THEN IF StrContains(waiter_name, "instance")
         THEN <<WaitCall(waiter_name, "InstanceIds", TRUE, resource_id, waiter_config)>>
         ELSE IF StrContains(waiter_name, "volume")
         THEN <<WaitCall(waiter_name, "VolumeIds", TRUE, resource_id, waiter_config)>>
         ELSE <<>>
    ELSE IF service_name = "s3"
    THEN <<WaitCall(waiter_name, "Bucket", FALSE, resource_id, waiter_config)>>
    ELSE IF service_name = "rds"
    THEN <<WaitCall(waiter_name, "DBInstanceIdentifier", FALSE, resource_id, waiter_config)>>
    ELSE <<WaitCall(waiter_name, resource_type, FALSE, resource_id, waiter_config)>>

\* what a call of a function comes to: a returned value, or an exception
\* that leaves it
Returns(value) == [raised |-> FALSE, returned |-> value]
Propagates(e) == [raised |-> TRUE, exception |-> e.exception]

\* answer: what the wait, if one is issued, comes to
wait_for_resource_state(service_name, waiter_name, resource_id, resource_type, max_attempts, delay, answer) ==
    IF WaitCalls(service_name, waiter_name, resource_id, resource_type,
                 max_attempts, delay) = <<>>
    THEN Returns(TRUE)
    ELSE IF answer.ok THEN Returns(TRUE)
    ELSE IF answer.error.exception = "ClientError" THEN Returns(FALSE)
    ELSE Propagates(answer.error)

\* service, waiter and resource type of the sampled calls
Waiter(service_name, waiter_name, resource_type) ==
    [service_name |-> service_name, waiter_name |-> waiter_name,
     resource_type |-> resource_type]

WaiterSamples ==
    {Waiter("ec2", <<"instance", "_", "running">>, "instance"),
     Waiter("ec2", <<"instance", "_", "stopped">>, "instance"),
     Waiter("ec2", <<"volume", "_", "available">>, "volume"),
     Waiter("ec2", <<"vpc", "_", "available">>, "vpc"),
     Waiter("ec2", <<"snapshot", "_", "completed">>, "snapshot"),
     Waiter("ec2", <<"image", "_", "available">>, "image"),
     Waiter("s3", <<"bucket", "_", "exists">>, "bucket"),
     Waiter("rds", <<"db", "_", "instance", "_", "available">>, "database"),
     Waiter("rds", <<"db", "_", "snapshot", "_", "available">>, "snapshot"),
     Waiter("dynamodb", <<"table", "_", "exists">>, "TableName"),
     Waiter("lambda", <<"function", "_", "active">>, "FunctionName")}

ResourceIdSamples == {"res-1", "res-2"}

\* max_attempts and delay: the defaults, and a caller's own
AttemptSamples == {[max_attempts |-> 40, delay |-> 15], [max_attempts |-> 2, delay |-> 1]}

WaitAnswers ==
    {Returned(<<>>),
     Raised(ClientError("AccessDenied", "not authorized")),
     Raised(WaiterError)}

(***************************************************************************)
(* shared/python/config_manager.py: the values a configuration takes.  A   *)
(* Python str is the sequence of the pieces its text is spelled from: the  *)
(* tokens of JSON where it reads as JSON, a bare word, a blank.  A value   *)
(* is a str, an int, a bool, None, or a dict of scalar keys and values.    *)
(***************************************************************************)
StrValue(text) == [t |-> "str", n |-> 0, text |-> text, pairs |-> <<>>]
IntValue(n) == [t |-> "int", n |-> n, text |-> <<>>, pairs |-> <<>>]
BoolValue(b) == [t |-> "bool", n |-> IF b THEN 1 ELSE 0, text |-> <<>>, pairs |-> <<>>]
NoneValue == [t |-> "none", n |-> 0, text |-> <<>>, pairs |-> <<>>]
\* a dict keeps its items in insertion order
DictValue(pairs) == [t |-> "dict", n |-> 0, text |-> <<>>, pairs |-> pairs]
Item(key, value) == [key |-> key, value |-> value]

\* the words the sampled configurations are spelled from, and each word
\* written as a JSON string
QuotedWords ==
    [name |-> "\"name\"", web |-> "\"web\"", retries |-> "\"retries\"", x |-> "\"x\"",
     hello |-> "\"hello\"", enabled |-> "\"enabled\""]
    @@ ("1" :> "\"1\"") @@ ("3" :> "\"3\"")

Quote(word) == QuotedWords[word]
IsStringToken(token) == \E word \in DOMAIN QuotedWords : QuotedWords[word] = token
Unquote(token) == CHOOSE word \in DOMAIN QuotedWords : QuotedWords[word] = token

\* the ints of the sampled configurations, and each written in decimal
Decimals == (1 :> "1") @@ (3 :> "3") @@ (42 :> "42") @@ (123 :> "123")

Digits(n) == Decimals[n]
IsNumberToken(token) == \E n \in DOMAIN Decimals : Decimals[n] = token
IntOf(token) == CHOOSE n \in DOMAIN Decimals : Decimals[n] = token

\* json.dumps of a key: a str key is quoted, an int key is written in
\* decimal and quoted
DumpsKey(key) ==
    IF key.t = "str" THEN Quote(key.text[1]) ELSE Quote(Digits(key.n))

\* json.dumps of a scalar
DumpsScalar(value) ==
    CASE value.t = "str" -> Quote(value.text[1])
      [] value.t = "int" -> Digits(value.n)
      [] value.t = "bool" -> IF value.n = 1 THEN "true" ELSE "false"
      [] value.t = "none" -> "null"

\* json.dumps(config_value) for a dict: {"k": v, "k": v}
Dumps(config_value) ==
    <<"{">>
    \o Concat([i \in DOMAIN config_value.pairs |->
                  (IF i > 1 THEN <<",", " ">> ELSE <<>>)
                  \o <<DumpsKey(config_value.pairs[i].key), ":", " ",
                       DumpsScalar(config_value.pairs[i].value)>>])
    \o <<"}">>

\* json.loads of a scalar token
IsScalarToken(token) ==
    IsNumberToken(token) \/ IsStringToken(token) \/ token \in {"true", "false", "null"}

LoadsScalar(token) ==
    CASE IsNumberToken(token) -> IntValue(IntOf(token))
      [] IsStringToken(token) -> StrValue(<<Unquote(token)>>)
      [] token = "true" -> BoolValue(TRUE)
      [] token = "false" -> BoolValue(FALSE)
      [] token = "null" -> NoneValue

\* the text without the blanks JSON allows between tokens
Significant(text) == SelectSeq(text, LAMBDA token : token # " ")

\* the tokens between the braces spell pairs: key : value , key : value
IsObject(tokens) ==
    /\ Len(tokens) >= 2
    /\ tokens[1] = "{"
    /\ tokens[Len(tokens)] = "}"
    /\ \/ Len(tokens) = 2
       \/ /\ (Len(tokens) - 2) % 4 = 3
          /\ \A i \in 2..(Len(tokens) - 1) :
                 CASE (i - 2) % 4 = 0 -> IsStringToken(tokens[i])
                   [] (i - 2) % 4 = 1 -> tokens[i] = ":"
                   [] (i - 2) % 4 = 2 -> IsScalarToken(tokens[i])
                   [] (i - 2) % 4 = 3 -> tokens[i] = ","

\* the pairs as written, then as a dict holds them: a key stays where it
\* came first and takes the value given last
WrittenPairs(tokens) ==
    [k \in 1..((Len(tokens) - 1) \div 4) |->
        Item(StrValue(<<Unquote(tokens[4 * k - 2])>>), LoadsScalar(tokens[4 * k]))]

DictOf(written) ==
    LET first == {i \in DOMAIN written : \A j \in 1..(i - 1) : written[j].key # written[i].key}
        last(i) == CHOOSE j \in DOMAIN written :
                       /\ written[j].key = written[i].key
                       /\ \A k \in DOMAIN written : written[k].key = written[i].key => k <= j
        kept == [k \in 1..Cardinality(first) |->
                    CHOOSE i \in first : Cardinality({j \in first : j < i}) = k - 1]
    IN  DictValue([k \in DOMAIN kept |-> Item(written[kept[k]].key, written[last(kept[k])].value)])

\* json.loads(text): the value, or JSONDecodeError
Loads(text) ==
    LET tokens == Significant(text) IN
    IF Len(tokens) = 1 /\ IsScalarToken(tokens[1])
    THEN [ok |-> TRUE, value |-> LoadsScalar(tokens[1])]
    ELSE IF IsObject(tokens)
    THEN [ok |-> TRUE, value |-> DictOf(WrittenPairs(tokens))]
    ELSE [ok |-> FALSE, value |-> NoneValue]

(***************************************************************************)
(* shared/python/config_manager.py: ConfigManager.  Configuration is kept  *)
(* at a location: a parameter of the Parameter Store, or an object of a    *)
(* bucket.                                                                 *)
(***************************************************************************)
Parameter(path) == [service |-> "ssm", bucket |-> "", name |-> path]
Object(bucket, key) == [service |-> "s3", bucket |-> bucket, name |-> key]

Locations == {Parameter("/app/config"), Object("cfg-bucket", "app.json")}

NotStored == [present |-> FALSE, text |-> <<>>]
Stored(text) == [present |-> TRUE, text |-> text]

\* ConfigManager.__init__ has not run yet / has run
NotConstructed ==
    [constructed |-> FALSE, config_source |-> "", region |-> StrNone, clients |-> <<>>]

ConfigManager(config_source, region) ==
    [constructed |-> TRUE, config_source |-> config_source, region |-> region,
     clients |-> <<>>]

\* boto3.client(service_name, region_name=region) / boto3.client(service_name);
\* every call gives a new handle, told apart by the number of the call
Boto3Client(service_name, region_name, number) ==
    [service_name |-> service_name, region_name |-> region_name, number |-> number]

\* the boto3.client call _get_client makes for a service
ClientCall(self, service_name) ==
    [service_name |-> service_name,
     region_name |-> IF StrTruthy(self.region) THEN self.region ELSE StrNone]

\* _get_client that asks for a new client every time
_get_client_uncached(self, log, service_name) ==
    [clients |-> [s \in DOMAIN self.clients \cup {service_name} |->
                     IF s = service_name
                     THEN Boto3Client(service_name, ClientCall(self, service_name).region_name,
                                      Len(log) + 1)
                     ELSE self.clients[s]],
     created |-> Append(log, ClientCall(self, service_name))]

\* _get_client: self.clients and the log of boto3.client calls after it
_get_client(self, log, service_name) ==
    IF service_name \notin DOMAIN self.clients
    THEN [clients |-> [s \in DOMAIN self.clients \cup {service_name} |->
                          IF s = service_name
                          THEN Boto3Client(service_name,
                                           ClientCall(self, service_name).region_name,
                                           Len(log) + 1)
                          ELSE self.clients[s]],
          created |-> Append(log, ClientCall(self, service_name))]
    ELSE [clients |-> self.clients, created |-> log]

\* ssm.get_parameter(Name=parameter_path, WithDecryption=True)
GetParameterCall(client, parameter_path) ==
    [api |-> "get_parameter", client |-> client, Name |-> parameter_path,
     WithDecryption |-> TRUE]

\* s3.get_object(Bucket=bucket, Key=key)
GetObjectCall(client, bucket, key) ==
    [api |-> "get_object", client |-> client, Bucket |-> bucket, Key |-> key]

\* the text read from a location, parsed if it is JSON and as it is if not
ParsedOrAsIs(text) ==
    IF Loads(text).ok THEN Loads(text).value ELSE StrValue(text)

\* answer: the provider's answer, holding the stored text
get_parameter_store_config(answer) ==
    IF ~answer.ok THEN Propagates(answer.error)
    ELSE Returns(ParsedOrAsIs(answer.value.Parameter.Value))

get_s3_config(answer) ==
    IF ~answer.ok THEN Propagates(answer.error) ELSE Returns(ParsedOrAsIs(answer.value.Body))

\* the text put for a value: json.dumps of a dict, a str as it is
TextOf(config_value) ==
    IF config_value.t = "dict" THEN Dumps(config_value) ELSE config_value.text

\* ssm.put_parameter(**params)
PutParameterCall(client, parameter_path, config_value, parameter_type, description) ==
    [api |-> "put_parameter", client |-> client, Name |-> parameter_path,
     Value |-> TextOf(config_value), Type |-> parameter_type, Overwrite |-> TRUE,
     Description |-> IF StrTruthy(description) THEN description ELSE StrNone]

\* s3.put_object(Bucket=bucket, Key=key, Body=..., ContentType=...)
PutObjectCall(client, bucket, key, config_value) ==
    [api |-> "put_object", client |-> client, Bucket |-> bucket, Key |-> key,
     Body |-> TextOf(config_value),
     ContentType |-> IF config_value.t = "dict" THEN "application/json" ELSE "text/plain"]

put_parameter_store_config(answer) == Returns(answer.ok)

put_s3_config(answer) == Returns(answer.ok)

\* an identifier: a str (a parameter path) or a dict with some of the keys
\* bucket and key
StrIdentifier(path) == [isstr |-> TRUE, path |-> path, keys |-> {}, bucket |-> "", key |-> ""]
DictIdentifier(keys, bucket, key) ==
    [isstr |-> FALSE, path |-> "", keys |-> keys, bucket |-> bucket, key |-> key]

ValueError == [exception |-> "ValueError", str |-> <<"identifier or config source">>]

\* get_config / put_config: the location the call goes to, if it goes
Dispatched(self, identifier) ==
    IF self.config_source = "parameter_store"
    THEN IF identifier.isstr THEN <<Parameter(identifier.path)>> ELSE <<>>
    ELSE IF self.config_source = "s3"
    THEN IF ~identifier.isstr /\ {"bucket", "key"} \subseteq identifier.keys
         THEN <<Object(identifier.bucket, identifier.key)>> ELSE <<>>
    ELSE <<>>

\* the provider's answer to a read of a location: the text stored, or that
\* nothing is there, or a refusal
NotFound(location) ==
    IF location.service = "ssm" THEN ClientError("ParameterNotFound", "not found")
    ELSE ClientError("NoSuchKey", "not found")

ReadAnswer(store, location, fault) ==
    IF fault THEN Raised(AccessDenied)
    ELSE IF ~store[location].present THEN Raised(NotFound(location))
    ELSE IF location.service = "ssm"
    THEN Returned([Parameter |-> [Value |-> store[location].text]])
    ELSE Returned([Body |-> store[location].text])

WriteAnswer(fault) ==
    IF fault THEN Raised(AccessDenied) ELSE Returned(<<>>)

\* the read call made on a location with a client
ReadCall(client, location) ==
    IF location.service = "ssm" THEN GetParameterCall(client, location.name)
    ELSE GetObjectCall(client, location.bucket, location.name)

\* what a get of a location comes to
GetResult(location, answer) ==
    IF location.service = "ssm" THEN get_parameter_store_config(answer)
    ELSE get_s3_config(answer)

\* the write call made on a location with a client
WriteCall(client, location, config_value, parameter_type, description) ==
    IF location.service = "ssm"
    THEN PutParameterCall(client, location.name, config_value, parameter_type, description)
    ELSE PutObjectCall(client, location.bucket, location.name, config_value)

PutResult(location, answer) ==
    IF location.service = "ssm" THEN put_parameter_store_config(answer)
    ELSE put_s3_config(answer)

ConfigSourceSamples == {"parameter_store", "s3", "dynamodb"}
RegionSamples == {StrNone, Str(""), Str("eu-west-1")}

IdentifierSamples ==
    {StrIdentifier("/app/config"),
     DictIdentifier({"bucket", "key"}, "cfg-bucket", "app.json"),
     DictIdentifier({"bucket"}, "cfg-bucket", "")}

ConfigValueSamples ==
    {StrValue(<<"hello">>),
     StrValue(<<"123">>),
     StrValue(<<"true">>),
     StrValue(<<"{", "\"name\"", ":", " ", "\"web\"", "}">>),
     DictValue(<<>>),
     DictValue(<<Item(StrValue(<<"name">>), StrValue(<<"web">>)),
                 Item(StrValue(<<"retries">>), IntValue(3)),
                 Item(StrValue(<<"enabled">>), BoolValue(TRUE))>>),
     DictValue(<<Item(IntValue(1), StrValue(<<"x">>))>>)}

\* parameter_type and description given to a put, the defaults first
PutOptionSamples ==
    {[parameter_type |-> "String", description |-> StrNone],
     [parameter_type |-> "SecureString", description |-> Str("app settings")]}

\* what another principal leaves at a location
OtherTexts == {<<"42">>}

Buckets == {"b1", "b2"}

Init ==
    /\ op = "idle"
    /\ args = <<>>
    /\ result = <<>>
    /\ calls = <<>>
    /\ bucketEnc = [b \in Buckets |-> NoConfiguration]
    /\ lastWrite = [b \in Buckets |-> NeverWritten]
    /\ applied = [b \in Buckets |-> <<>>]
    /\ before = [b \in Buckets |-> NoConfiguration]
    /\ errors = <<>>
    /\ manager = NotConstructed
    /\ configStore = [loc \in Locations |-> NotStored]
    /\ created = <<>>
    /\ lastPut = [loc \in Locations |-> <<>>]

IsPublicCidr ==
    /\ op = "idle"
    /\ \E cidr \in CidrSamples :
        /\ op' = "is_public_cidr"
        /\ args' = [cidr |-> cidr]
        /\ result' = is_public_cidr_call(cidr)
        /\ calls' = <<>>
        /\ UNCHANGED <<s3State, errors, configState>>

\* check_security_group_rules called, the provider answering with one of
\* the given answers
CheckSecurityGroupRulesGiven(answers) ==
    \E hrp \in HighRiskPortSamples, answer \in answers :
        /\ op' = "check_security_group_rules"
        /\ args' = [security_group_id |-> "sg-1", high_risk_ports |-> hrp, answer |-> answer]
        /\ result' = check_security_group_rules("sg-1", hrp, answer)
        /\ calls' = <<DescribeSecurityGroupsCall("sg-1")>>
        /\ UNCHANGED <<s3State, errors, configState>>

CheckSecurityGroupRules ==
    /\ op = "idle"
    /\ CheckSecurityGroupRulesGiven(DescribeSecurityGroupsAnswers)

\* the same call where the group has one rule at most
CheckSecurityGroupRulesShort ==
    /\ op = "idle"
    /\ CheckSecurityGroupRulesGiven(ShortSecurityGroupsAnswers)

RemediateSecurityGroupIssues ==
    /\ op = "idle"
    /\ \E issues \in SeqUpTo(IssueSamples, MaxIssues) :
        \E outcomes \in [1..Len(issues) -> RevokeAnswers] :
            LET done == remediate_security_group_issues("sg-1", issues, outcomes) IN
            /\ op' = "remediate_security_group_issues"
            /\ args' = [security_group_id |-> "sg-1", issues |-> issues,
                        outcomes |-> outcomes]
            /\ result' = done.ret
            /\ calls' = done.calls
            /\ UNCHANGED <<s3State, errors, configState>>

CheckIamPasswordPolicy ==
    /\ op = "idle"
    /\ \E answer \in GetAccountPasswordPolicyAnswers :
        /\ op' = "check_iam_password_policy"
        /\ args' = [answer |-> answer]
        /\ result' = check_iam_password_policy(answer)
        /\ calls' = <<GetAccountPasswordPolicyCall>>
        /\ UNCHANGED <<s3State, errors, configState>>

CheckS3BucketEncryption ==
    /\ op = "idle"
    /\ \E bucket \in Buckets, fault \in BOOLEAN :
        /\ op' = "check_s3_bucket_encryption"
        /\ args' = [bucket_name |-> bucket, answer |-> GetBucketEncryption(bucket, fault)]
        /\ result' = check_s3_bucket_encryption(bucket, GetBucketEncryption(bucket, fault))
        /\ calls' = <<GetBucketEncryptionCall(bucket)>>
        /\ UNCHANGED <<s3State, errors, configState>>

EnableS3BucketEncryption ==
    /\ op = "idle"
    /\ \E bucket \in Buckets, kms_key_id \in KeyIdSamples, fault \in BOOLEAN :
        LET call == PutBucketEncryptionCall(bucket, kms_key_id)
            answer == IF fault THEN Raised(AccessDenied) ELSE Returned([ResponseMetadata |-> "200"])
        IN  /\ op' = "enable_s3_bucket_encryption"
            /\ args' = [bucket_name |-> bucket, kms_key_id |-> kms_key_id, answer |-> answer]
            /\ result' = enable_s3_bucket_encryption(bucket, kms_key_id, answer)
            /\ calls' = <<call>>
            /\ UNCHANGED <<errors, configState>>
            /\ IF fault
               THEN UNCHANGED s3State
               ELSE /\ bucketEnc' = [bucketEnc EXCEPT
                                       ![bucket] = Configured(call.ServerSideEncryptionConfiguration)]
                    /\ lastWrite' = [lastWrite EXCEPT ![bucket] = WrittenByEnable(kms_key_id)]
                    /\ applied' = [applied EXCEPT
                                     ![bucket] = Repeated(@, Application(bucket, kms_key_id,
                                                                         result',
                                                                         bucketEnc'[bucket]))]
                    /\ UNCHANGED before

\* another principal replaces or deletes a bucket's configuration
OtherWriter ==
    /\ op = "idle"
    /\ \E bucket \in Buckets :
        /\ \/ bucketEnc' = [bucketEnc EXCEPT ![bucket] = NoConfiguration]
           \/ \E config \in OtherConfigs :
                 bucketEnc' = [bucketEnc EXCEPT ![bucket] = Configured(config)]
        /\ lastWrite' = [lastWrite EXCEPT ![bucket] = WrittenByOther]
        /\ applied' = [applied EXCEPT ![bucket] = <<>>]
        /\ before' = bucketEnc'
        /\ UNCHANGED <<op, args, result, calls, errors, configState>>

\* check_cloudtrail_status called, the provider answering describe_trails
\* with one of the given answers
CheckCloudTrailStatusGiven(answers) ==
    \E answer \in answers :
        \E statuses \in [1..(IF answer.ok THEN Len(Get(answer.value, "trailList", <<>>))
                             ELSE 0) -> TrailStatusAnswers] :
            /\ op' = "check_cloudtrail_status"
            /\ args' = [answer |-> answer, statuses |-> statuses]
            /\ result' = check_cloudtrail_status(answer, statuses)
            /\ calls' = CloudTrailCalls(answer)
            /\ UNCHANGED <<s3State, errors, configState>>

CheckCloudTrailStatus ==
    /\ op = "idle"
    /\ CheckCloudTrailStatusGiven(DescribeTrailsAnswers)

\* the same call where the account has one trail at most
CheckCloudTrailStatusShort ==
    /\ op = "idle"
    /\ CheckCloudTrailStatusGiven(ShortTrailsAnswers)

CheckEbsVolumeEncryption ==
    /\ op = "idle"
    /\ \E answer \in DescribeVolumesAnswers :
        /\ op' = "check_ebs_volume_encryption"
        /\ args' = [volume_id |-> "vol-1", answer |-> answer]
        /\ result' = check_ebs_volume_encryption("vol-1", answer)
        /\ calls' = <<DescribeVolumesCall("vol-1")>>
        /\ UNCHANGED <<s3State, errors, configState>>

CheckRootAccountMfa ==
    /\ op = "idle"
    /\ \E answer \in GetAccountSummaryAnswers :
        /\ op' = "check_root_account_mfa"
        /\ args' = [answer |-> answer]
        /\ result' = check_root_account_mfa(answer)
        /\ calls' = <<GetAccountSummaryCall>>
        /\ UNCHANGED <<s3State, errors, configState>>

CheckFile ==
    /\ op = "idle"
    /\ Len(errors) < MaxErrors
    /\ \E file \in FileSamples :
        /\ op' = "check_file"
        /\ args' = [path |-> file.path, loaded |-> file.loaded, errors |-> errors]
        /\ errors' = errors \o check_file(file.path, file.loaded)
        /\ result' = <<>>
        /\ calls' = <<>>
        /\ UNCHANGED <<s3State, configState>>

Main ==
    /\ op = "idle"
    /\ Len(errors) < MaxErrors
    /\ \E targets \in TargetSamples :
        /\ op' = "main"
        /\ args' = [argv |-> <<"ssm_policy_check.py">> \o targets, errors |-> errors]
        /\ errors' = errors \o CheckTargets(targets)
        /\ result' = MainResult(errors')
        /\ calls' = <<>>
        /\ UNCHANGED <<s3State, configState>>

FormatResultsAsHtml ==
    /\ op = "idle"
    /\ \E results \in ResultsSamples, now \in ClockSamples :
        /\ op' = "format_results_as_html"
        /\ args' = [title |-> "Report", results |-> results, now |-> now]
        /\ result' = format_results_as_html("Report", results, now)
        /\ calls' = <<>>
        /\ UNCHANGED <<s3State, errors, configState>>

WaitForResourceState ==
    /\ op = "idle"
    /\ \E w \in WaiterSamples, resource_id \in ResourceIdSamples, a \in AttemptSamples,
          answer \in WaitAnswers :
        /\ op' = "wait_for_resource_state"
        /\ args' = [service_name |-> w.service_name, waiter_name |-> w.waiter_name,
                    resource_id |-> resource_id, resource_type |-> w.resource_type,
                    max_attempts |-> a.max_attempts, delay |-> a.delay, answer |-> answer]
        /\ result' = wait_for_resource_state(w.service_name, w.waiter_name, resource_id,
                                             w.resource_type, a.max_attempts, a.delay,
                                             answer)
        /\ calls' = WaitCalls(w.service_name, w.waiter_name, resource_id,
                              w.resource_type, a.max_attempts, a.delay)
        /\ UNCHANGED <<s3State, errors, configState>>

\* ConfigManager(config_source, region)
NewConfigManager ==
    /\ op = "idle"
    /\ ~manager.constructed
    /\ \E config_source \in ConfigSourceSamples, region \in RegionSamples :
        /\ op' = "ConfigManager"
        /\ args' = [config_source |-> config_source, region |-> region]
        /\ result' = <<>>
        /\ calls' = <<>>
        /\ manager' = ConfigManager(config_source, region)
        /\ UNCHANGED <<s3State, errors, configStore, created, lastPut>>

\* a read of a location through the manager: the client is taken from the
\* cache, the call is made, the answer is parsed
ReadThrough(name, location, arguments, fault) ==
    LET got == _get_client(manager, created, location.service)
        answer == ReadAnswer(configStore, location, fault)
    IN  /\ op' = name
        /\ args' = arguments @@ [answer |-> answer]
        /\ result' = GetResult(location, answer)
        /\ calls' = <<ReadCall(got.clients[location.service], location)>>
        /\ manager' = [manager EXCEPT !.clients = got.clients]
        /\ created' = got.created
        /\ UNCHANGED <<s3State, errors, configStore, lastPut>>

\* a write of a location through the manager
WriteThrough(name, location, arguments, config_value, options, fault) ==
    LET got == _get_client(manager, created, location.service)
        answer == WriteAnswer(fault)
    IN  /\ op' = name
        /\ args' = arguments @@ [answer |-> answer]
        /\ result' = PutResult(location, answer)
        /\ calls' = <<WriteCall(got.clients[location.service], location, config_value,
                                options.parameter_type, options.description)>>
        /\ manager' = [manager EXCEPT !.clients = got.clients]
        /\ created' = got.created
        /\ configStore' = IF fault THEN configStore
                          ELSE [configStore EXCEPT ![location] = Stored(TextOf(config_value))]
        /\ lastPut' = IF fault THEN lastPut
                      ELSE [lastPut EXCEPT ![location] = <<[by |-> name, value |-> config_value]>>]
        /\ UNCHANGED <<s3State, errors>>

\* a call that raises before it does anything
RaisesValueError(name, arguments) ==
    /\ op' = name
    /\ args' = arguments
    /\ result' = Propagates(ValueError)
    /\ calls' = <<>>
    /\ UNCHANGED <<s3State, errors, configState>>

GetConfig ==
    /\ op = "idle"
    /\ manager.constructed
    /\ \E identifier \in IdentifierSamples, is_json \in BOOLEAN, fault \in BOOLEAN :
        LET arguments == [identifier |-> identifier, is_json |-> is_json] IN
        IF Dispatched(manager, identifier) = <<>>
        THEN RaisesValueError("get_config", arguments)
        ELSE ReadThrough("get_config", Dispatched(manager, identifier)[1], arguments, fault)

PutConfig ==
    /\ op = "idle"
    /\ manager.constructed
    /\ \E identifier \in IdentifierSamples, config_value \in ConfigValueSamples,
          options \in PutOptionSamples, fault \in BOOLEAN :
        LET arguments == [identifier |-> identifier, config_value |-> config_value,
                          kwargs |-> options]
        IN  IF Dispatched(manager, identifier) = <<>>
            THEN RaisesValueError("put_config", arguments)
            ELSE WriteThrough("put_config", Dispatched(manager, identifier)[1], arguments,
                              config_value, options, fault)

GetParameterStoreConfig ==
    /\ op = "idle"
    /\ manager.constructed
    /\ \E location \in {l \in Locations : l.service = "ssm"}, fault \in BOOLEAN :
        ReadThrough("get_parameter_store_config", location,
                    [parameter_path |-> location.name], fault)

GetS3Config ==
    /\ op = "idle"
    /\ manager.constructed
    /\ \E location \in {l \in Locations : l.service = "s3"}, fault \in BOOLEAN :
        ReadThrough("get_s3_config", location,
                    [bucket |-> location.bucket, key |-> location.name], fault)

\* another principal writes a location, or deletes what is there
OtherConfigWriter ==
    /\ op = "idle"
    /\ \E location \in Locations, entry \in {NotStored} \cup {Stored(text) : text \in OtherTexts} :
        /\ configStore[location] # entry
        /\ configStore' = [configStore EXCEPT ![location] = entry]
        /\ lastPut' = [lastPut EXCEPT ![location] = <<>>]
        /\ UNCHANGED <<op, args, result, calls, s3State, errors, manager, created>>

\* the caller takes the result; the next call starts afresh
Return ==
    /\ op # "idle"
    /\ op' = "idle"
    /\ args' = <<>>
    /\ result' = <<>>
    /\ calls' = <<>>
    /\ applied' = [b \in Buckets |-> LastOnly(applied[b])]
    /\ before' = bucketEnc
    /\ UNCHANGED <<bucketEnc, lastWrite, errors, configState>>

Next ==
    \/ IsPublicCidr
    \/ CheckSecurityGroupRules
    \/ RemediateSecurityGroupIssues
    \/ CheckIamPasswordPolicy
    \/ CheckCloudTrailStatus
    \/ CheckEbsVolumeEncryption
    \/ CheckRootAccountMfa
    \/ Return

Spec == Init /\ [][Next]_vars

\* the S3 helpers against the provider's bucket state
NextS3 ==
    \/ CheckS3BucketEncryption
    \/ EnableS3BucketEncryption
    \/ OtherWriter
    \/ Return

SpecS3 == Init /\ [][NextS3]_vars

\* every helper of the module, the S3 ones against the buckets' state; the
\* security group and trail evaluators are given one rule or trail at most,
\* so that the buckets' states are not multiplied by the longer lists
NextCore ==
    \/ IsPublicCidr
    \/ CheckSecurityGroupRulesShort
    \/ RemediateSecurityGroupIssues
    \/ CheckS3BucketEncryption
    \/ EnableS3BucketEncryption
    \/ CheckEbsVolumeEncryption
    \/ CheckIamPasswordPolicy
    \/ CheckCloudTrailStatusShort
    \/ CheckRootAccountMfa
    \/ Return

SpecCore == Init /\ [][NextCore]_vars

\* the policy check script: calls of check_file and main in one process
NextPolicyCheck ==
    \/ CheckFile
    \/ Main
    \/ Return

SpecPolicyCheck == Init /\ [][NextPolicyCheck]_vars

\* the report formatter
NextReport ==
    \/ FormatResultsAsHtml
    \/ Return

SpecReport == Init /\ [][NextReport]_vars

\* a script waiting for resources
NextWait ==
    \/ WaitForResourceState
    \/ Return

SpecWait == Init /\ [][NextWait]_vars

\* a script keeping its configuration through one ConfigManager
NextConfig ==
    \/ NewConfigManager
    \/ GetConfig
    \/ PutConfig
    \/ GetParameterStoreConfig
    \/ GetS3Config
    \/ OtherConfigWriter
    \/ Return

SpecConfig == Init /\ [][NextConfig]_vars

(***************************************************************************)
(* Claims about the CIDR classifier and the security group evaluator.      *)
(***************************************************************************)
GroupFound ==
    /\ op = "check_security_group_rules"
    /\ args.answer.ok
    /\ "SecurityGroups" \in DOMAIN args.answer.value
    /\ args.answer.value.SecurityGroups # <<>>

CheckedRules == Get(args.answer.value.SecurityGroups[1], "IpPermissions", <<>>)

\* every CIDR attached to a rule: its IPv4 ranges, then its IPv6 ranges
AttachedCidrs(rule) ==
    [i \in 1..Len(Get(rule, "IpRanges", <<>>)) |-> rule.IpRanges[i].CidrIp]
    \o [i \in 1..Len(Get(rule, "Ipv6Ranges", <<>>)) |-> rule.Ipv6Ranges[i].CidrIpv6]

RECURSIVE PublicPairCidrs(_)
PublicPairCidrs(rules) ==
    IF rules = <<>> THEN <<>>
    ELSE SelectSeq(AttachedCidrs(Head(rules)), is_public_cidr)
         \o PublicPairCidrs(Tail(rules))

\* C3: check_security_group_rules emits exactly one PublicAccess finding for
\* every (ingress rule, attached CIDR) pair whose CIDR is public, IPv4 or
\* IPv6, in rule order then CIDR order, and no other finding.
C3_OneFindingPerPublicPair ==
    GroupFound =>
        /\ [i \in 1..Len(result.Issues) |-> result.Issues[i].Cidr]
               = PublicPairCidrs(CheckedRules)
        /\ \A i \in 1..Len(result.Issues) : result.Issues[i].Type = "PublicAccess"

\* the port set the caller configured: the default only when none is supplied
ConfiguredPorts == IF args.high_risk_ports.none
                   THEN DefaultHighRiskPorts
                   ELSE args.high_risk_ports.ports

\* C4: every finding is graded against the caller-configured high-risk port
\* set: protocol "all" gives HIGH with the whole set affected; otherwise the
\* affected ports are the configured ports inside FromPort..ToPort, HIGH iff
\* there is one and MEDIUM iff there is none.
C4_SeverityFromConfiguredPorts ==
    GroupFound =>
        \A i \in 1..Len(result.Issues) :
            LET f == result.Issues[i] IN
            IF f.IpProtocol = "-1"
            THEN f.Severity = "HIGH" /\ f.AffectedPorts = ConfiguredPorts
            ELSE /\ f.AffectedPorts =
                        SelectSeq(ConfiguredPorts,
                                  LAMBDA q : f.FromPort <= q /\ q <= f.ToPort)
                 /\ f.Severity = (IF f.AffectedPorts # <<>> THEN "HIGH" ELSE "MEDIUM")

\* C5: Status is HasIssues iff there are findings and Clean iff there are
\* none; TotalIssues counts the findings and HighRiskIssues the HIGH ones; a
\* failed or empty group lookup gives Status Error and no findings at all.
C5_ResultShape ==
    op = "check_security_group_rules" =>
        IF GroupFound
        THEN /\ result.Status = (IF Len(result.Issues) > 0 THEN "HasIssues" ELSE "Clean")
             /\ result.TotalIssues = Len(result.Issues)
             /\ result.HighRiskIssues =
                    Cardinality({i \in 1..Len(result.Issues) :
                                    result.Issues[i].Severity = "HIGH"})
             /\ result.HighRiskIssues <= result.TotalIssues
             /\ (CheckedRules = <<>> => result.Status = "Clean" /\ result.Issues = <<>>)
        ELSE /\ result.Status = "Error"
             /\ "Issues" \notin DOMAIN result
             /\ "Error" \in DOMAIN result

\* a group with a HIGH and a MEDIUM finding has been evaluated
C5_Witness ==
    /\ GroupFound
    /\ result.Status = "HasIssues"
    /\ result.TotalIssues = 2
    /\ result.HighRiskIssues = 1

\* an RFC 1918 block, by its octets
IsRFC1918(c) ==
    /\ c.kind = "v4"
    /\ ~NetworkValueError(c)
    /\ \/ c.a[1] = 10 /\ c.p >= 8
       \/ c.a[1] = 172 /\ c.a[2] \in 16..31 /\ c.p >= 12
       \/ c.a[1] = 192 /\ c.a[2] = 168 /\ c.p >= 16

\* C6: is_public_cidr(c) is true iff c is "0.0.0.0/0" or "::/0" or parses as
\* a network neither private nor reserved; it is false for every RFC 1918 or
\* reserved block and for empty, absent and malformed input, and never raises.
C6_IsPublicCidr ==
    op = "is_public_cidr" =>
        LET c == args.cidr IN
        /\ result.raised = "none"
        /\ result.ret <=>
             \/ c \in {AnyV4, AnyV6}
             \/ /\ ~NetworkValueError(c)
                /\ ~is_private(ip_network(c))
                /\ ~is_reserved(ip_network(c))
        /\ IsRFC1918(c) => ~result.ret
        /\ (~NetworkValueError(c) /\ is_reserved(ip_network(c))) => ~result.ret
        /\ (CidrFalsy(c) \/ NetworkValueError(c)) /\ c \notin {AnyV4, AnyV6} => ~result.ret

\* a malformed string (an octet of 256) has been classified as not public
C6_Witness ==
    /\ op = "is_public_cidr"
    /\ args.cidr = V4(256, 0, 0, 0, 8)
    /\ result = [raised |-> "none", ret |-> FALSE]

(***************************************************************************)
(* Claims about the remediation.                                           *)
(***************************************************************************)
Remediating == op = "remediate_security_group_issues"

AllPublicAccess ==
    \A i \in 1..Len(args.issues) : Get(args.issues[i], "Type", "None") = "PublicAccess"

HasCidr(issue) == "Cidr" \in DOMAIN issue /\ issue.Cidr \notin {CidrNone, CidrEmpty}

\* the revoke for finding i was issued and the provider accepted it
RevokeSucceeded(i) == HasCidr(args.issues[i]) /\ args.outcomes[i].ok

SucceededSet == {i \in 1..Len(args.issues) : RevokeSucceeded(i)}
NotSucceededSet == (1..Len(args.issues)) \ SucceededSet

\* C1: for a list of PublicAccess findings the status is NoIssues iff the
\* list is empty; otherwise Remediated iff every revoke succeeded, Failed iff
\* none did, PartiallyRemediated iff some did and some did not; the two
\* counters count the findings remediated and failed.
C1_AggregateStatus ==
    (Remediating /\ AllPublicAccess) =>
        /\ (result.Status = "NoIssues") <=> (args.issues = <<>>)
        /\ args.issues # <<>> =>
            /\ (result.Status = "Remediated") <=> (NotSucceededSet = {})
            /\ (result.Status = "Failed") <=> (SucceededSet = {})
            /\ (result.Status = "PartiallyRemediated")
                   <=> (SucceededSet # {} /\ NotSucceededSet # {})
            /\ result.RemediatedIssues = Cardinality(SucceededSet)
            /\ result.FailedRemediations = Cardinality(NotSucceededSet)

\* two findings, the second with an empty CIDR, the first revoked
C1_Witness ==
    /\ Remediating
    /\ args.issues = <<SshFinding, EmptyCidrFinding>>
    /\ args.outcomes[1].ok
    /\ result.Status = "PartiallyRemediated"
    /\ result.RemediatedIssues = 1
    /\ result.FailedRemediations = 1

\* the call a finding asks for, read off the finding
ExpectedCall(issue) ==
    [api |-> "revoke_security_group_ingress",
     GroupId |-> args.security_group_id,
     IpPermissions |-> <<[IpProtocol |-> issue.IpProtocol, FromPort |-> issue.FromPort,
                          ToPort |-> issue.ToPort,
                          IpRanges |-> <<[CidrIp |-> issue.Cidr]>>]>>]

RECURSIVE ExpectedCalls(_)
ExpectedCalls(issues) ==
    IF issues = <<>> THEN <<>>
    ELSE (IF HasCidr(Head(issues)) THEN <<ExpectedCall(Head(issues))>> ELSE <<>>)
         \o ExpectedCalls(Tail(issues))

\* the failure entry finding i must leave, if any
RECURSIVE ExpectedFailures(_)
ExpectedFailures(i) ==
    IF i > Len(args.issues) THEN <<>>
    ELSE (IF ~HasCidr(args.issues[i])
          THEN <<[Issue |-> args.issues[i], Error |-> "Missing CIDR information"]>>
          ELSE IF ~args.outcomes[i].ok
          THEN <<[Issue |-> args.issues[i], Error |-> args.outcomes[i].error.str]>>
          ELSE <<>>)
         \o ExpectedFailures(i + 1)

PolicyEvaluated == op = "check_iam_password_policy" /\ args.answer.ok

\* the value the account holds for a field (None when it holds none)
CurrentValue(key) ==
    IF "PasswordPolicy" \in DOMAIN args.answer.value
    THEN args.answer.value.PasswordPolicy[key]
    ELSE PyNone

IsSet(x) == x.t # "none"
FieldStatus(key) == result.ComplianceDetails[key].Status

\* the fields other than MaxPasswordAge, by their thresholds
OtherFieldsByThreshold ==
    /\ (FieldStatus("MinimumPasswordLength") = "Compliant")
           <=> (IsSet(CurrentValue("MinimumPasswordLength"))
                    /\ CurrentValue("MinimumPasswordLength").v >= 14)
    /\ (FieldStatus("PasswordReusePrevention") = "Compliant")
           <=> (IsSet(CurrentValue("PasswordReusePrevention"))
                    /\ CurrentValue("PasswordReusePrevention").v >= 24)
    /\ \A k \in RequirementFlags :
           (FieldStatus(k) = "Compliant") <=> (CurrentValue(k) = PyBool(TRUE))
    /\ \A k \in PolicyKeys : FieldStatus(k) \in {"Compliant", "NonCompliant"}

\* C7 (as claimed): every field is classified by its directional threshold,
\* for every policy value: MinimumPasswordLength >= 14,
\* PasswordReusePrevention >= 24, MaxPasswordAge <= 90, each requirement flag
\* true; anything else is NonCompliant.
C7_DirectionalThresholds ==
    PolicyEvaluated =>
        /\ OtherFieldsByThreshold
        /\ (FieldStatus("MaxPasswordAge") = "Compliant")
               <=> (IsSet(CurrentValue("MaxPasswordAge"))
                        /\ CurrentValue("MaxPasswordAge").v <= 90)

\* C7 (amended): as claimed, except that MaxPasswordAge is Compliant iff the
\* current value is set, is not 0 (IAM's "passwords never expire"), and is
\* <= 90.
C7_ThresholdsNonZeroMaxAge ==
    PolicyEvaluated =>
        /\ OtherFieldsByThreshold
        /\ (FieldStatus("MaxPasswordAge") = "Compliant")
               <=> (IsSet(CurrentValue("MaxPasswordAge"))
                        /\ CurrentValue("MaxPasswordAge").v # 0
                        /\ CurrentValue("MaxPasswordAge").v <= 90)

\* a policy with MaxPasswordAge 0 and a long enough minimum length has been
\* evaluated: the first field is NonCompliant, the second Compliant
C7_Witness ==
    /\ PolicyEvaluated
    /\ CurrentValue("MaxPasswordAge") = PyInt(0)
    /\ FieldStatus("MaxPasswordAge") = "NonCompliant"
    /\ CurrentValue("MinimumPasswordLength") = PyInt(14)
    /\ FieldStatus("MinimumPasswordLength") = "Compliant"

CompliantFields == {k \in PolicyKeys : FieldStatus(k) = "Compliant"}

\* C8: the overall status is Compliant iff all seven fields are Compliant
\* (100 percent), PartiallyCompliant iff some but not all are, NonCompliant
\* iff none is (0 percent).
C8_OverallStatus ==
    PolicyEvaluated =>
        /\ DOMAIN result.ComplianceDetails = PolicyKeys
        /\ Cardinality(PolicyKeys) = 7
        /\ (result.Status = "Compliant") <=> (CompliantFields = PolicyKeys)
        /\ (result.Status = "PartiallyCompliant")
               <=> (CompliantFields # {} /\ CompliantFields # PolicyKeys)
        /\ (result.Status = "NonCompliant") <=> (CompliantFields = {})
        /\ (CompliantFields = PolicyKeys)
               <=> (result.CompliancePercentage.num = 100 * result.CompliancePercentage.den)
        /\ (CompliantFields = {}) <=> (result.CompliancePercentage.num = 0)
        /\ result.CompliancePercentage.num * 7
               = Cardinality(CompliantFields) * 100 * result.CompliancePercentage.den

\* minLength 8, every flag false, reuse 0, maxAge 365: 0 percent, NonCompliant
C8_Witness ==
    /\ PolicyEvaluated
    /\ args.answer.value =
         [PasswordPolicy |->
            [MinimumPasswordLength |-> PyInt(8), RequireSymbols |-> PyBool(FALSE),
             RequireNumbers |-> PyBool(FALSE), RequireUppercaseCharacters |-> PyBool(FALSE),
             RequireLowercaseCharacters |-> PyBool(FALSE),
             PasswordReusePrevention |-> PyInt(0), MaxPasswordAge |-> PyInt(365)]]
    /\ result.Status = "NonCompliant"
    /\ result.CompliancePercentage.num = 0

\* the error code the provider reported
ErrorCode(e) == e.str[2]

\* C9: a "no such entity" answer gives NonCompliant, 0 percent and the
\* "No password policy is set" marker, not Error; any other provider error
\* gives Status Error.
C9_MissingPolicyIsNotAnError ==
    (op = "check_iam_password_policy" /\ ~args.answer.ok) =>
        IF ErrorCode(args.answer.error) = "NoSuchEntity"
        THEN /\ result.Status = "NonCompliant"
             /\ result.CompliancePercentage.num = 0
             /\ result.Error = "No password policy is set"
        ELSE result.Status = "Error"

\* the provider denied access and the evaluator reported Error
C9_Witness ==
    /\ op = "check_iam_password_policy"
    /\ ~args.answer.ok
    /\ ErrorCode(args.answer.error) = "AccessDenied"
    /\ result.Status = "Error"

(***************************************************************************)
(* Claims about S3 bucket encryption.                                      *)
(***************************************************************************)
\* a check of a bucket whose lookup the provider served: it returned the
\* configuration or reported that there is none (no access or service fault)
S3Checked(bucket) ==
    /\ op = "check_s3_bucket_encryption"
    /\ args.bucket_name = bucket
    /\ (args.answer.ok \/ ErrorCode(args.answer.error) # "AccessDenied")

\* C10: a bucket that never got a configuration checks as Unencrypted; once
\* enable_s3_bucket_encryption succeeded on it without a key id, and nobody
\* wrote to it since, a check gives Encrypted, HasSSE, not HasKMS; with a key
\* id it gives HasSSE and HasKMS.
C10_EnableThenCheck ==
    \A bucket \in Buckets :
        S3Checked(bucket) =>
            /\ lastWrite[bucket] = NeverWritten => result.Status = "Unencrypted"
            /\ (lastWrite[bucket].by = "enable" /\ ~StrTruthy(lastWrite[bucket].kms_key_id)) =>
                   /\ result.Status = "Encrypted"
                   /\ result.HasSSE
                   /\ ~result.HasKMS
            /\ (lastWrite[bucket].by = "enable" /\ StrTruthy(lastWrite[bucket].kms_key_id)) =>
                   /\ result.Status = "Encrypted"
                   /\ result.HasSSE
                   /\ result.HasKMS

\* b1 was enabled with a key id and then checked, while b2 never was written
C10_Witness ==
    /\ S3Checked("b1")
    /\ lastWrite["b1"] = WrittenByEnable(Str("key-1"))
    /\ lastWrite["b2"] = NeverWritten
    /\ result.Status = "Encrypted"
    /\ result.HasKMS

\* the default algorithm a rule names, "" when it names none
DefaultAlgorithm(rule) ==
    IF "ApplyServerSideEncryptionByDefault" \in DOMAIN rule
    THEN IF "SSEAlgorithm" \in DOMAIN rule.ApplyServerSideEncryptionByDefault
         THEN rule.ApplyServerSideEncryptionByDefault.SSEAlgorithm
         ELSE ""
    ELSE ""

\* the rule list the bucket has at the provider, empty when it has no
\* configuration
RulesOf(bucket) ==
    IF bucketEnc[bucket].present THEN bucketEnc[bucket].config.Rules ELSE <<>>

\* C11: a check the provider served gives Unencrypted when the bucket's rule
\* list is absent or empty; otherwise it gives Encrypted, with HasSSE true
\* exactly when some rule names a non-empty default algorithm and HasKMS true
\* exactly when some rule's default algorithm is "aws:kms".
C11_StatusFromRules ==
    \A bucket \in Buckets :
        S3Checked(bucket) =>
            IF RulesOf(bucket) = <<>>
            THEN result.Status = "Unencrypted"
            ELSE /\ result.Status = "Encrypted"
                 /\ result.HasSSE <=>
                        \E i \in DOMAIN RulesOf(bucket) :
                            DefaultAlgorithm(RulesOf(bucket)[i]) # ""
                 /\ result.HasKMS <=>
                        \E i \in DOMAIN RulesOf(bucket) :
                            DefaultAlgorithm(RulesOf(bucket)[i]) = "aws:kms"

\* a bucket whose only rule names the dual-layer KMS algorithm was checked:
\* Encrypted, HasSSE, not HasKMS
C11_Witness ==
    /\ S3Checked("b1")
    /\ Len(RulesOf("b1")) = 1
    /\ DefaultAlgorithm(RulesOf("b1")[1]) = "aws:kms:dsse"
    /\ result.Status = "Encrypted"
    /\ result.HasSSE
    /\ ~result.HasKMS

\* the one rule enable_s3_bucket_encryption is to write for a key id
ExpectedRule(kms_key_id) ==
    IF kms_key_id = StrNone \/ kms_key_id.s = ""
    THEN [ApplyServerSideEncryptionByDefault |-> [SSEAlgorithm |-> "AES256"]]
    ELSE [ApplyServerSideEncryptionByDefault |->
             [SSEAlgorithm |-> "aws:kms", KMSMasterKeyID |-> kms_key_id.s]]

\* C12: a second successive application of enable_s3_bucket_encryption to
\* the same bucket with the same key id leaves the configuration the first
\* one left and returns the same result; the configuration put has exactly
\* one rule, AES256 without a key id and aws:kms with the key id otherwise;
\* a provider failure is returned as Status Error with the provider's text.
C12_EnableIdempotent ==
    /\ \A bucket \in Buckets :
           Len(applied[bucket]) = 2 =>
               /\ applied[bucket][2].config = applied[bucket][1].config
               /\ applied[bucket][2].result = applied[bucket][1].result
    /\ op = "enable_s3_bucket_encryption" =>
           /\ Len(calls) = 1
           /\ calls[1].api = "put_bucket_encryption"
           /\ calls[1].Bucket = args.bucket_name
           /\ calls[1].ServerSideEncryptionConfiguration
                  = [Rules |-> <<ExpectedRule(args.kms_key_id)>>]
           /\ IF args.answer.ok
              THEN /\ result.Status = "Enabled"
                   /\ bucketEnc[args.bucket_name].present
                   /\ bucketEnc[args.bucket_name].config.Rules
                          = <<ExpectedRule(args.kms_key_id)>>
              ELSE /\ result.Status = "Error"
                   /\ result.Error = args.answer.error.str

\* b1 was enabled with key-1 twice in succession, both times successfully
C12_Witness ==
    /\ op = "enable_s3_bucket_encryption"
    /\ args.answer.ok
    /\ args.bucket_name = "b1"
    /\ Len(applied["b1"]) = 2
    /\ applied["b1"][1].kms_key_id = Str("key-1")
    /\ applied["b1"][2].kms_key_id = Str("key-1")
    /\ applied["b1"][2].result = result

(***************************************************************************)
(* Claims about check_cloudtrail_status.                                   *)
(***************************************************************************)
\* the trail listing succeeded
TrailsListed == op = "check_cloudtrail_status" /\ args.answer.ok

\* the trails the provider listed
ListedTrails ==
    IF "trailList" \in DOMAIN args.answer.value THEN args.answer.value.trailList ELSE <<>>

\* the status lookup of the i-th trail succeeded and said it is logging
LookupSaysLogging(i) ==
    /\ args.statuses[i].ok
    /\ "IsLogging" \in DOMAIN args.statuses[i].value
    /\ args.statuses[i].value.IsLogging

FlagSet(trail, flag) == flag \in DOMAIN trail /\ trail[flag]

\* positions of the trails that log, are multi-region and validate log files
HealthyPositions ==
    {i \in DOMAIN ListedTrails :
        /\ LookupSaysLogging(i)
        /\ FlagSet(ListedTrails[i], "IsMultiRegionTrail")
        /\ FlagSet(ListedTrails[i], "LogFileValidationEnabled")}

Evaluators ==
    {"check_security_group_rules", "check_s3_bucket_encryption",
     "check_ebs_volume_encryption", "check_iam_password_policy",
     "check_cloudtrail_status", "check_root_account_mfa"}

\* the provider refused or failed the helper's call
CallFailed == ~args.answer.ok

\* the two answers by which the service says "nothing is configured"
SaysNotConfigured ==
    /\ CallFailed
    /\ \/ /\ op = "check_s3_bucket_encryption"
          /\ ErrorCode(args.answer.error) = "ServerSideEncryptionConfigurationNotFoundError"
       \/ /\ op = "check_iam_password_policy"
          /\ ErrorCode(args.answer.error) = "NoSuchEntity"

\* the call succeeded but the answer does not hold the resource asked for
ResourceMissing ==
    /\ args.answer.ok
    /\ \/ /\ op = "check_security_group_rules"
          /\ \/ "SecurityGroups" \notin DOMAIN args.answer.value
             \/ args.answer.value.SecurityGroups = <<>>
       \/ /\ op = "check_ebs_volume_encryption"
          /\ \/ "Volumes" \notin DOMAIN args.answer.value
             \/ args.answer.value.Volumes = <<>>

ReadApis ==
    {"describe_security_groups", "get_bucket_encryption", "describe_volumes",
     "get_account_password_policy", "describe_trails", "get_trail_status",
     "get_account_summary"}

\* the evaluator that ran, run once more on the snapshot as it is now: the
\* answers it was given, and for the bucket what the provider holds
EvaluatedAgain ==
    CASE op = "check_security_group_rules" ->
             check_security_group_rules(args.security_group_id, args.high_risk_ports,
                                        args.answer)
      [] op = "check_s3_bucket_encryption" ->
             check_s3_bucket_encryption(
                 args.bucket_name,
                 GetBucketEncryption(args.bucket_name,
                                     ~args.answer.ok
                                         /\ ErrorCode(args.answer.error) = "AccessDenied"))
      [] op = "check_ebs_volume_encryption" ->
             check_ebs_volume_encryption(args.volume_id, args.answer)
      [] op = "check_iam_password_policy" -> check_iam_password_policy(args.answer)
      [] op = "check_cloudtrail_status" ->
             check_cloudtrail_status(args.answer, args.statuses)
      [] op = "check_root_account_mfa" -> check_root_account_mfa(args.answer)

FileChecked == op = "check_file" /\ args.loaded.ok

\* the errors the call that ran last added to the list
NewErrors == SubSeq(errors, Len(args.errors) + 1, Len(errors))

\* the document looks like an automation document
LooksLikeAutomation ==
    /\ args.loaded.doc.kind = "mapping"
    /\ \E key \in {"schemaVersion", "assumeRole", "mainSteps"} :
           key \in DOMAIN args.loaded.doc.entries

RecordedSchemaVersionError ==
    \E i \in DOMAIN NewErrors :
        /\ NewErrors[i].path = args.path
        /\ NewErrors[i].error = "schemaVersion must be '0.3'"

RecordedAssumeRoleError ==
    \E i \in DOMAIN NewErrors :
        /\ NewErrors[i].path = args.path
        /\ NewErrors[i].error = "'assumeRole' is required at top level"

\* assumeRole is there and is not empty
HasAssumeRole ==
    /\ "assumeRole" \in DOMAIN args.loaded.doc.entries
    /\ args.loaded.doc.entries.assumeRole.t # "null"
    /\ args.loaded.doc.entries.assumeRole.text # <<>>

\* schemaVersion is the string "0.3"
SchemaVersionIsString03 ==
    /\ "schemaVersion" \in DOMAIN args.loaded.doc.entries
    /\ args.loaded.doc.entries.schemaVersion = YamlStr(<<"0", ".", "3">>)

\* schemaVersion, written out as text, is 0.3 between any whitespace
SchemaVersionReads03 ==
    /\ "schemaVersion" \in DOMAIN args.loaded.doc.entries
    /\ LET text == PyStr(args.loaded.doc.entries.schemaVersion) IN
       \E i \in DOMAIN text :
           /\ i + 2 <= Len(text)
           /\ SubSeq(text, i, i + 2) = <<"0", ".", "3">>
           /\ \A j \in DOMAIN text : (j < i \/ j > i + 2) => text[j] \in Whitespace

\* main returns 1 exactly when the list of errors is not empty
MainReturnsByErrors ==
    op = "main" => result.returned = IF errors # <<>> THEN 1 ELSE 0

\* C17 as stated: nothing is recorded for a document that is not a mapping
\* or has none of the three keys; otherwise a schemaVersion error is
\* recorded unless schemaVersion equals "0.3" and an assumeRole error unless
\* assumeRole is present and non-empty; main returns 1 when errors were
\* recorded and 0 otherwise.
C17_PolicyCheckAsStated ==
    /\ FileChecked =>
           IF LooksLikeAutomation
           THEN /\ RecordedSchemaVersionError <=> ~SchemaVersionIsString03
                /\ RecordedAssumeRoleError <=> ~HasAssumeRole
                /\ Len(NewErrors) <= 2
           ELSE NewErrors = <<>>
    /\ MainReturnsByErrors

\* C17 amended: as above, with the schemaVersion error recorded unless the
\* value, converted to text and stripped of surrounding whitespace, is 0.3.
C17_PolicyCheck ==
    /\ FileChecked =>
           IF LooksLikeAutomation
           THEN /\ RecordedSchemaVersionError <=> ~SchemaVersionReads03
                /\ RecordedAssumeRoleError <=> ~HasAssumeRole
                /\ Len(NewErrors) <= 2
           ELSE NewErrors = <<>>
    /\ MainReturnsByErrors

\* a document whose schemaVersion is the number 0.3 was checked and passed
C17_Witness ==
    /\ FileChecked
    /\ LooksLikeAutomation
    /\ SchemaVersionReads03
    /\ args.loaded.doc.entries.schemaVersion.t = "float"
    /\ HasAssumeRole
    /\ NewErrors = <<>>

(***************************************************************************)
(* Claims about format_results_as_html: the page is read back as a reader  *)
(* of HTML reads it.                                                       *)
(***************************************************************************)
\* the tags that open a cell, with the cell's kind and class
CellOpens ==
    [tag : {"th"}, class : {""}, atom : {"<th>"}]
    \cup {[tag |-> "td", class |-> "", atom |-> "<td>"],
          [tag |-> "td", class |-> "success", atom |-> "<td class=\"success\">"],
          [tag |-> "td", class |-> "error", atom |-> "<td class=\"error\">"],
          [tag |-> "td", class |-> "warning", atom |-> "<td class=\"warning\">"]}

\* markup that is not text of a cell
OtherMarkup ==
    {"<!DOCTYPE html>", "<html>", "</html>", "<head>", "</head>", "<title>", "</title>",
     "<style>", "</style>", "<body>", "</body>", "<h1>", "</h1>", "<p>", "</p>",
     "<div class=\"summary\">", "</div>", "<strong>", "</strong>", "<b>", "</b>"}

\* a character reference read as the character it stands for
Decoded(atom) ==
    CASE atom = "&amp;" -> "&"
      [] atom = "&lt;" -> "<"
      [] atom = "&gt;" -> ">"
      [] OTHER -> atom

\* the positions of a page that hold one of the atoms
Positions(html, atoms) == {i \in DOMAIN html : html[i] \in atoms}

\* a set of positions as an ascending sequence
Ascending(positions) ==
    [k \in 1..Cardinality(positions) |->
        CHOOSE i \in positions : Cardinality({j \in positions : j < i}) = k - 1]

\* the first position after `from` that holds one of the atoms, or the end
NextOf(html, atoms, from) ==
    IF \E i \in Positions(html, atoms) : i > from
    THEN CHOOSE i \in Positions(html, atoms) :
             i > from /\ \A j \in Positions(html, atoms) : j > from => i <= j
    ELSE Len(html) + 1

IsContent(atom) ==
    /\ atom \notin OtherMarkup
    /\ atom \notin {c.atom : c \in CellOpens}
    /\ atom \notin {"</td>", "</th>", "<tr>", "</tr>", "<table>", "</table>", "<h2>", "</h2>"}

\* the cell opened at a position: its kind, its class and its text
CellAt(html, at) ==
    LET open == CHOOSE c \in CellOpens : c.atom = html[at]
        inside == SelectSeq(SubSeq(html, at + 1, NextOf(html, {"</td>", "</th>"}, at) - 1),
                            IsContent)
    IN  [tag |-> open.tag, class |-> open.class,
         text |-> [k \in DOMAIN inside |-> Decoded(inside[k])]]

\* the cells of the row opened at a position
RowAt(html, at) ==
    LET opens == {i \in Positions(html, {c.atom : c \in CellOpens}) :
                     i > at /\ i < NextOf(html, {"</tr>"}, at)}
    IN  [k \in DOMAIN Ascending(opens) |-> CellAt(html, Ascending(opens)[k])]

\* the heading a position stands under
HeadingAt(html, at) ==
    LET headings == {i \in Positions(html, {"<h2>"}) : i < at} IN
    IF headings = {} THEN ""
    ELSE html[(CHOOSE i \in headings : \A j \in headings : j <= i) + 1]

\* the table opened at a position: its heading and its rows
TableAt(html, at) ==
    LET opens == {i \in Positions(html, {"<tr>"}) :
                     i > at /\ i < NextOf(html, {"</table>"}, at)}
    IN  [section |-> HeadingAt(html, at),
         rows |-> [k \in DOMAIN Ascending(opens) |-> RowAt(html, Ascending(opens)[k])]]

\* the tables of a page, each with the heading it stands under
TablesOf(html) ==
    [k \in DOMAIN Ascending(Positions(html, {"<table>"})) |->
        TableAt(html, Ascending(Positions(html, {"<table>"}))[k])]

\* the page was produced, and it was given the list section "Findings"
Formatted == op = "format_results_as_html" /\ result.ok

FindingsGiven ==
    \E s \in DOMAIN args.results : args.results[s].name = "Findings"

FindingsItems ==
    args.results[CHOOSE s \in DOMAIN args.results : args.results[s].name = "Findings"]
        .data.items

\* the tables read back under the heading "Findings"
FindingsTables ==
    SelectSeq(TablesOf(result.html), LAMBDA table : table.section = "Findings")

HasKey(item, key) == \E p \in DOMAIN item.pairs : item.pairs[p].key = key
ValueOf(item, key) ==
    item.pairs[CHOOSE p \in DOMAIN item.pairs : item.pairs[p].key = key].value

\* every item of the section is a finding record: a dict with a resource id
\* and a status
AllFindingRecords ==
    /\ FindingsItems # <<>>
    /\ \A i \in DOMAIN FindingsItems :
           /\ FindingsItems[i].kind = "dict"
           /\ HasKey(FindingsItems[i], "ResourceId")
           /\ HasKey(FindingsItems[i], "Status")

\* the value read in a row under the header cell of a column
ReadUnder(header, row, column, value) ==
    \E j \in DOMAIN header :
        /\ header[j].text = <<column>>
        /\ j \in DOMAIN row
        /\ row[j].text = value

\* C18: a section that is a list of finding records is rendered as one table
\* with one row per record in input order, and a row's cells read against
\* the header cells give back the record's resource id and status text
\* verbatim under ResourceId and Status.
C18_FindingsRoundTrip ==
    (Formatted /\ FindingsGiven /\ AllFindingRecords) =>
        /\ Len(FindingsTables) = 1
        /\ Len(FindingsTables[1].rows) = 1 + Len(FindingsItems)
        /\ \A i \in DOMAIN FindingsItems :
               \A column \in {"ResourceId", "Status"} :
                   ReadUnder(FindingsTables[1].rows[1], FindingsTables[1].rows[i + 1],
                             column, ValueOf(FindingsItems[i], column))

\* the class a cell is to carry, by the key and value it was rendered from
ExpectedClass(key, value) ==
    IF Lower(key) \in {"status", "state"} /\ Len(value) = 1
    THEN CASE Lower(value[1]) \in SuccessWords -> "success"
           [] Lower(value[1]) \in ErrorWords -> "error"
           [] Lower(value[1]) \in WarningWords -> "warning"
           [] OTHER -> ""
    ELSE ""

\* every item of the section is a dict
AllDicts ==
    /\ FindingsItems # <<>>
    /\ \A i \in DOMAIN FindingsItems : FindingsItems[i].kind = "dict"

\* C19: in the table of a list section the cell rendered from a key and a
\* value carries class success, error or warning exactly when the key is
\* status or state and the value is in the success, error or warning
\* vocabulary, both compared case-insensitively; the vocabularies are
\* disjoint; every other cell of the page carries no class.
C19_SeverityClass ==
    /\ SuccessWords \cap ErrorWords = {}
    /\ SuccessWords \cap WarningWords = {}
    /\ ErrorWords \cap WarningWords = {}
    /\ (Formatted /\ FindingsGiven /\ AllDicts) =>
           /\ Len(FindingsTables) = 1
           /\ \A i \in DOMAIN FindingsItems :
                  LET row == FindingsTables[1].rows[i + 1]
                      pairs == FindingsItems[i].pairs
                  IN  /\ Len(row) = Len(pairs)
                      /\ \A j \in DOMAIN pairs :
                             row[j].class = ExpectedClass(pairs[j].key, pairs[j].value)
           /\ \A t \in DOMAIN TablesOf(result.html) :
                  TablesOf(result.html)[t].section # "Findings" =>
                      \A r \in DOMAIN TablesOf(result.html)[t].rows :
                          \A c \in DOMAIN TablesOf(result.html)[t].rows[r] :
                              TablesOf(result.html)[t].rows[r][c].class = ""

\* a row with a STATE cell of value "In Progress" (warning), a Status cell
\* of value FAILED (error) and a resource id cell without class
C19_Witness ==
    /\ Formatted
    /\ FindingsGiven
    /\ AllDicts
    /\ Len(FindingsItems) = 2
    /\ Len(FindingsItems[2].pairs) = 3
    /\ FindingsItems[2].pairs[2].key = "STATE"
    /\ Len(FindingsTables) = 1
    /\ FindingsTables[1].rows[3][1].class = ""
    /\ FindingsTables[1].rows[3][2].class = "warning"
    /\ FindingsTables[1].rows[3][3].class = "error"
    /\ Len(TablesOf(result.html)) = 2

(***************************************************************************)
(* Claims about the remediation's accounting of its input.                 *)
(***************************************************************************)
\* how many times a finding stands in a list of findings
Occurrences(finding, findings) ==
    Cardinality({i \in DOMAIN findings : findings[i] = finding})

\* the findings of the failure entries
FailedFindings ==
    [i \in DOMAIN result.Details.Failed |-> result.Details.Failed[i].Issue]

\* C20: for a list of findings of any kinds, every input finding is in
\* exactly one of Details.Remediated and Details.Failed (as often as it was
\* given), RemediatedIssues + FailedRemediations is the number of input
\* findings, and the status is Failed only when a remediation failed.
C20_EveryFindingAccounted ==
    (Remediating /\ args.issues # <<>>) =>
        /\ \A i \in DOMAIN args.issues :
               Occurrences(args.issues[i], result.Details.Remediated)
                   + Occurrences(args.issues[i], FailedFindings)
               = Occurrences(args.issues[i], args.issues)
        /\ result.RemediatedIssues + result.FailedRemediations = Len(args.issues)
        /\ result.Status = "Failed" => result.Details.Failed # <<>>

(***************************************************************************)
(* Claims about repeated invocations of ssm_policy_check.main.             *)
(***************************************************************************)
MainInvoked == op = "main"

\* the files of this invocation, argv[1:]
InvocationFiles == Tail(args.argv)

\* every file of this invocation passes check_file: none adds an error
AllFilesPass == CheckTargets(InvocationFiles) = <<>>

\* C21: across any sequence of main invocations in one process, an
\* invocation whose files all pass check_file returns 0 and prints no
\* error, whatever earlier invocations recorded.
C21_MainDependsOnItsFilesOnly ==
    (MainInvoked /\ AllFilesPass) =>
        /\ result.returned = 0
        /\ result.printed = <<>>

(***************************************************************************)
(* Claims about wait_for_resource_state.                                   *)
(***************************************************************************)
Waited == op = "wait_for_resource_state"

\* a wait on the given resource id was issued
WaitIssued ==
    /\ Len(calls) = 1
    /\ calls[1].api = "wait"
    /\ calls[1].value.id = args.resource_id

\* C22: for every service name and waiter name the helper returns True
\* only if a wait on the given resource id was issued and completed without
\* error, and it returns False when the provider reports an error.
C22_TrueOnlyAfterWait ==
    Waited =>
        /\ (~result.raised /\ result.returned) => (WaitIssued /\ args.answer.ok)
        /\ (WaitIssued /\ ~args.answer.ok /\ args.answer.error.exception = "ClientError")
               => (~result.raised /\ ~result.returned)

(***************************************************************************)
(* Claims about ConfigManager.                                             *)
(***************************************************************************)
\* the services the manager's operations have used so far
ServicesUsed == {created[i].service_name : i \in DOMAIN created}

\* the boto3.client calls made for a service
CreationsOf(service_name) == {i \in DOMAIN created : created[i].service_name = service_name}

\* the region a client of the manager is to be created with: the manager's
\* region, and none where the manager has none
ManagerRegion == IF StrTruthy(manager.region) THEN manager.region ELSE StrNone

\* an operation of the manager that went to a service
UsedService == manager.constructed /\ calls # <<>> /\ "client" \in DOMAIN calls[1]

\* C23: after any sequence of get/put operations of one ConfigManager the
\* cache maps each service name used so far to exactly one client handle:
\* a client was created at most once per service name, the cached handle is
\* the one created then (never replaced, never removed), every operation
\* on the service uses that handle, and every client was created with the
\* manager's region.
C23_ClientCache ==
    /\ DOMAIN manager.clients = ServicesUsed
    /\ \A service_name \in ServicesUsed :
           /\ Cardinality(CreationsOf(service_name)) = 1
           /\ \A i \in CreationsOf(service_name) :
                  /\ manager.clients[service_name]
                         = Boto3Client(service_name, created[i].region_name, i)
                  /\ created[i].region_name = ManagerRegion
    /\ UsedService =>
           \A c \in DOMAIN calls :
               calls[c].client = manager.clients[calls[c].client.service_name]

\* a manager with a region has used both services, and the operation that
\* ran last went to the service whose client was created first
C23_Witness ==
    /\ UsedService
    /\ manager.region = Str("eu-west-1")
    /\ Len(created) = 2
    /\ DOMAIN manager.clients = {"ssm", "s3"}
    /\ op = "put_config"
    /\ calls[1].client.number = 1
    /\ calls[1].client.region_name = Str("eu-west-1")

\* get_config on a parameter path of a parameter_store manager, answered
\* by the provider
GotParameter ==
    /\ op = "get_config"
    /\ manager.config_source = "parameter_store"
    /\ args.identifier.isstr
    /\ args.answer.ok

\* the value put_config put at the path read, that put having returned True
\* and being the last write to the path
LastPutAtPath == lastPut[Parameter(args.identifier.path)]

\* C24: for the parameter_store source, after put_config(path, v) returned
\* True and with no other write to the path, get_config(path) returns a
\* value equal to v, for every dict value and every str value v.
C24_ConfigRoundTrip ==
    (GotParameter /\ LastPutAtPath # <<>> /\ LastPutAtPath[1].by = "put_config") =>
        /\ ~result.raised
        /\ result.returned = LastPutAtPath[1].value

====
